---- MODULE Spec2Model ----
(***************************************************************************)
(* A model of the uamqp client layer: the CBS token gate (handle_token),   *)
(* AMQPClient.do_work / open / close, SendClient, ReceiveClient and        *)
(* MgmtOperation.execute.  Each component has its own specification over   *)
(* its own group of variables; the other groups stay at their initial      *)
(* value in that specification.                                            *)
(***************************************************************************)
EXTENDS Integers, Sequences, FiniteSets, TLC

VARIABLES
    \* ---- CBS authenticator and the AMQPClient.do_work gate
    cbs_status,        \* what _cbs_auth.get_status() returns next
    retries,           \* SASTokenAuth.retries
    policy_retries,    \* TokenRetryPolicy.retries
    has_credentials,   \* username and password both present
    token,             \* generation of SASTokenAuth.token / expires_at
    ht,                \* the last handle_token call: what it read and did
    dw,                \* the last do_work call: the path it took
    err_calls,         \* handle_token calls that read Error so far (capped)
    \* ---- TickCounter
    now,               \* c_uamqp.TickCounter.get_current_ms()
    \* ---- MgmtOperation
    responses,         \* MgmtOperation._responses: operation id -> response
    mgmt_error,        \* MgmtOperation.mgmt_error
    next_op,           \* the next fresh operation id (uuid4)
    outstanding,       \* requests the management link has not completed yet
    finished,          \* operation ids of the execute calls that have ended
    ex,                \* the execute call in progress, or the last one
    \* ---- AMQPClient
    kind,              \* the class of the client: "Send" or "Receive"
    auth_cbs,          \* self._auth is a CBSAuthMixin
    session,           \* self._session: "None", "Session" or "CbsSession"
    connection,        \* self._connection: "None", "Own" or "Ext"
    ext_connection,    \* self._ext_connection
    own_cbs,           \* .cbs of the Connection the client created is set
    ext_cbs,           \* .cbs of the injected Connection is set
    ext_auth_cbs,      \* .auth of the injected Connection is a CBSAuthMixin
    shutdown,          \* self._shutdown
    destroys,          \* destroy calls issued since the last open
    peer_session,      \* _session of a second client, one that is only ever
                       \* opened on the injected Connection
    \* ---- SendClient
    msg_timeout,       \* self._msg_timeout, in seconds
    message_sender,    \* "None", or MessageSender._state
    pending,           \* self._pending_messages
    msg_state,         \* Message.state of each message
    idle_time,         \* Message.idle_time of each message
    inflight,          \* messages handed to the Sender and not settled yet
    sc,                \* the blocking SendClient call in progress, or the last
    run,               \* history of the do_work calls of the SendClient:
                       \* every send_async call so far (run.keep = "calls"),
                       \* or the path, result and connection.work() calls of
                       \* the last do_work (run.keep = "last")
    \* ---- ConnectionAsync
    conn_lock,         \* self._lock is held
    co,                \* where each coroutine is in work_async
    in_flight,         \* coroutines whose _conn.do_work is running in the
                       \* executor
    conn_ticks,        \* _conn.do_work calls that have ended (capped)
    \* ---- the lock of the CBS authenticator
    tok_lock,          \* CBSAuthMixin._lock is held
    hc,                \* where each caller is in handle_token, and the status
                       \* it has read
    \* ---- ReceiveClient
    prefetch,          \* self._prefetch
    recv_timeout,      \* self._timeout, in milliseconds
    message_receiver,  \* "None", or MessageReceiver._state
    last_activity_timestamp,  \* self._last_activity_timestamp, -1 for None
    was_message_received,     \* self._was_message_received
    received_messages, \* self._received_messages: the queue; <<-1>> for None
    delivered,         \* messages the transport has delivered so far
    last_arrival,      \* when a tick last delivered a message, and when one
                       \* last opened the receiver link; -1 before that
    rc                 \* the receive call in progress, or the last one

cbsVars == <<cbs_status, retries, policy_retries, has_credentials, token,
             ht, dw, err_calls>>

mgmtVars == <<responses, mgmt_error, next_op, outstanding, finished, ex>>

baseVars == <<kind, auth_cbs, session, connection, ext_connection, own_cbs,
              ext_cbs, ext_auth_cbs, shutdown, destroys, peer_session>>

sendVars == <<msg_timeout, message_sender, pending, msg_state, idle_time,
              inflight, sc, run>>

recvVars == <<prefetch, recv_timeout, message_receiver,
              last_activity_timestamp, was_message_received,
              received_messages, delivered, last_arrival, rc>>

clientVars == <<baseVars, sendVars, recvVars>>

connVars == <<conn_lock, co, in_flight, conn_ticks>>

tokVars == <<tok_lock, hc>>

vars == <<cbsVars, now, mgmtVars, clientVars, connVars, tokVars>>

(***************************************************************************)
(* Bounds of the model.                                                    *)
(***************************************************************************)
MaxRetries == 2
MaxToken == 1
MaxTime == 2
MaxOps == 2
MaxMgmtTimeout == 2
MaxMsgs == 2
MaxMsgTimeout == 1
MaxPrefetch == 2
MaxDelivered == 3
MaxPerTick == 2
MaxCoroutines == 3
MaxTicks == 3
MaxCallers == 2

\* (current_time - message.idle_time)/1000: milliseconds in a second.
MsPerSec == 1000

\* The clock is read at multiples of a second.
ClockStep == MsPerSec

Msgs == 1..MaxMsgs

\* The threads or coroutines that call handle_token on one authenticator.
Callers == 1..MaxCallers

\* The coroutines that share one ConnectionAsync.
Coroutines == 1..MaxCoroutines

(***************************************************************************)
(* The values before any call, and the state of each component that a      *)
(* specification of another component leaves alone.                        *)
(***************************************************************************)
NoCall == [called |-> FALSE, status |-> "Idle", before |-> 0, exc |-> "None",
           timeout |-> FALSE, in_progress |-> FALSE, call |-> "none",
           after |-> 0]

NoWork == [path |-> "none", ticks |-> 0, ran |-> FALSE]

NoExecute == [pc |-> "idle", id |-> 0, start |-> 0, timeout |-> 0,
              outcome |-> "none", result |-> 0, iters |-> 0,
              last_iter |-> 0, completed |-> FALSE, ended |-> 0,
              turn |-> FALSE]

NoTokenCall == [pc |-> "idle", status |-> "none", exc |-> "None"]

\* An authenticator nobody is calling.
TokIdle == tok_lock = FALSE /\ hc = [c \in Callers |-> NoTokenCall]

\* A ConnectionAsync no coroutine is working on.
ConnIdle ==
    /\ conn_lock = FALSE /\ co = [c \in Coroutines |-> "idle"]
    /\ in_flight = {} /\ conn_ticks = 0

CbsIdle ==
    /\ cbs_status = "Idle" /\ retries = 0 /\ policy_retries = 0
    /\ has_credentials = FALSE /\ token = 0
    /\ ht = NoCall /\ dw = NoWork /\ err_calls = 0

MgmtIdle ==
    /\ responses = <<>> /\ mgmt_error = "None" /\ next_op = 1
    /\ outstanding = {} /\ finished = {} /\ ex = NoExecute

NoArrival == [message |-> -1, link |-> -1]

NoDestroys == [conn |-> 0, session |-> 0, cbs_auth |-> 0, link |-> 0,
               ext_conn |-> 0]

NoSendCall == [pc |-> "idle", op |-> "none", batch |-> {}, snapshot |-> <<>>,
               close_on_done |-> FALSE, outcome |-> "none", results |-> <<>>]

BaseIdle ==
    /\ kind = "Send" /\ auth_cbs = FALSE /\ session = "None"
    /\ connection = "None" /\ ext_connection = FALSE /\ own_cbs = FALSE
    /\ ext_cbs = FALSE /\ ext_auth_cbs = FALSE /\ destroys = NoDestroys
    /\ peer_session = "None"

\* No do_work call yet, and no history kept.
NoRun == [keep |-> "nothing", path |-> "none", out |-> "none",
          ticks |-> 0, log |-> <<>>]

SendIdle ==
    /\ run = NoRun
    /\ message_sender = "None" /\ pending = <<>>
    /\ msg_state = [m \in Msgs |-> "New"]
    /\ idle_time = [m \in Msgs |-> 0]
    /\ inflight = {} /\ sc = NoSendCall

NoRecvCall == [pc |-> "idle", op |-> "none", max_batch_size |-> 0,
               deadline |-> 0,
               expired |-> FALSE, receiving |-> TRUE, batch |-> <<>>,
               outcome |-> "none", opened |-> FALSE, ticked |-> FALSE,
               added |-> -1, stalled |-> FALSE, had |-> 0]

\* self._received_messages is None
QueueNone == <<-1>>

RecvIdle ==
    /\ prefetch = 1 /\ recv_timeout = 0 /\ message_receiver = "None"
    /\ last_activity_timestamp = -1 /\ was_message_received = FALSE
    /\ received_messages = QueueNone /\ delivered = 0 /\ rc = NoRecvCall
    /\ last_arrival = NoArrival

\* The client fields without the shutdown flag, before the first open.
ClientIdleButShutdown == BaseIdle /\ SendIdle /\ RecvIdle

ClientIdle == ClientIdleButShutdown /\ shutdown = FALSE

(***************************************************************************)
(* CBS: CBSAuthMixin.handle_token                                          *)
(***************************************************************************)
CBSAuthStatus ==
    {"Ok", "Idle", "InProgress", "Timeout", "RefreshRequired", "Expired",
     "Error", "Failure"}

\* What one handle_token call does, given the status it reads.
\*   exc          the exception it raises ("None": it returns)
\*   timeout, in_progress   the pair it returns
\*   retries      SASTokenAuth.retries afterwards
\*   call         the request it issues on the CBS channel
\*   token        the token generation afterwards (update_token)
HtResult(exc, timeout, in_progress, r, call, tok) ==
    [exc |-> exc, timeout |-> timeout, in_progress |-> in_progress,
     retries |-> r, call |-> call, token |-> tok]

\* The retry test with the comparison off by one.
RetriesExhaustedOffByOne(r, limit) == r > limit

RetriesExhausted(r, limit) == r >= limit

\* SASTokenAuth.update_token without the credentials test.
CanRefreshAlways(creds) == TRUE

CanRefresh(creds) == creds

\* The Failure branch as documented: the exception is raised.
FailureRaises(r, tok) ==
    HtResult("AuthenticationException", FALSE, FALSE, r, "none", tok)

\* The Failure branch builds AuthenticationException and drops it: no raise.
FailureBranch(r, tok) == HtResult("None", FALSE, FALSE, r, "none", tok)

\* A handle_token that starts the retry count again once the token is
\* accepted.
OkBranchResets(r, tok) == HtResult("None", FALSE, FALSE, 0, "none", tok)

\* Ok: no branch of the chain is taken, (False, False) is returned.
OkBranch(r, tok) == HtResult("None", FALSE, FALSE, r, "none", tok)

HandleToken(status, r, limit, creds, tok) ==
    CASE status = "Error" ->
            IF RetriesExhausted(r, limit)
            THEN HtResult("TokenAuthFailure", FALSE, FALSE, r, "none", tok)
            ELSE HtResult("None", FALSE, TRUE, r + 1, "authenticate", tok)
      [] status = "Failure" -> FailureBranch(r, tok)
      [] status = "Expired" ->
            HtResult("TokenExpired", FALSE, FALSE, r, "none", tok)
      [] status = "Timeout" -> HtResult("None", TRUE, FALSE, r, "none", tok)
      [] status = "InProgress" -> HtResult("None", FALSE, TRUE, r, "none", tok)
      [] status = "RefreshRequired" ->
            IF CanRefresh(creds)
            THEN HtResult("None", FALSE, FALSE, r, "refresh",
                          IF tok < MaxToken THEN tok + 1 ELSE tok)
            ELSE HtResult("TokenExpired", FALSE, FALSE, r, "none", tok)
      [] status = "Idle" -> HtResult("None", FALSE, TRUE, r, "authenticate", tok)
      [] OTHER -> OkBranch(r, tok)

\* The status of the CBS channel once the request is issued.
StatusAfterCall(call, status) ==
    IF call \in {"authenticate", "refresh"} THEN "InProgress" ELSE status

\* The status changes the CBS channel makes by itself.
CbsNextStatus(status) ==
    CASE status = "InProgress" -> {"Ok", "Error", "Timeout", "Failure"}
      [] status = "Ok" -> {"RefreshRequired", "Expired"}
      [] status = "RefreshRequired" -> {"Expired"}
      [] status = "Idle" -> {"Failure"}
      [] OTHER -> {}

(***************************************************************************)
(* AMQPClient.do_work: the gate in front of the role-specific step.        *)
(***************************************************************************)
\* handle_token is skipped when the connection has no CBS authenticator.
NoCbs(r, tok) == HtResult("None", FALSE, FALSE, r, "none", tok)

\* The gate with the timeout test placed before the shutdown test.
GateTimeoutFirst(h, shut) ==
    IF h.exc /= "None" THEN h.exc
    ELSE IF h.timeout THEN "TimeoutError"
    ELSE IF shut THEN "False"
    ELSE IF h.in_progress THEN "AuthTick"
    ELSE "Proceed"

\* The gate that proceeds while authentication is still in progress.
GateIgnoresProgress(h, shut) ==
    IF h.exc /= "None" THEN h.exc
    ELSE IF shut THEN "False"
    ELSE IF h.timeout THEN "TimeoutError"
    ELSE "Proceed"

\* "False": returns False; an exception name: raises it; "AuthTick": one
\* connection.work() and return True; "Proceed": go on to _client_ready.
Gate(h, shut) ==
    IF h.exc /= "None" THEN h.exc
    ELSE IF shut THEN "False"
    ELSE IF h.timeout THEN "TimeoutError"
    ELSE IF h.in_progress THEN "AuthTick"
    ELSE "Proceed"

CbsInit ==
    /\ cbs_status = "Idle"
    /\ retries = 0
    /\ policy_retries \in 0..MaxRetries
    /\ has_credentials \in BOOLEAN
    /\ token = 0
    /\ ht = NoCall
    /\ dw = NoWork
    /\ err_calls = 0
    /\ now = 0
    /\ MgmtIdle /\ ConnIdle /\ TokIdle
    /\ ClientIdleButShutdown
    /\ msg_timeout = 0
    /\ shutdown \in BOOLEAN

\* AMQPClient.do_work of the base client on a connection with CBS:
\* _client_ready() is True and _client_run() is one connection.work().
CbsDoWork ==
    LET h == HandleToken(cbs_status, retries, policy_retries, has_credentials,
                         token)
        g == Gate(h, shutdown)
    IN  /\ ht' = [called |-> TRUE, status |-> cbs_status, before |-> retries,
                  exc |-> h.exc, timeout |-> h.timeout,
                  in_progress |-> h.in_progress, call |-> h.call,
                  after |-> h.retries]
        /\ retries' = h.retries
        /\ token' = h.token
        /\ cbs_status' = StatusAfterCall(h.call, cbs_status)
        /\ err_calls' = IF cbs_status = "Error" /\ err_calls < policy_retries + 2
                        THEN err_calls + 1 ELSE err_calls
        /\ dw' = [path |-> g,
                  ticks |-> IF g \in {"AuthTick", "Proceed"} THEN 1 ELSE 0,
                  ran |-> (g = "Proceed")]
        /\ UNCHANGED <<policy_retries, has_credentials, now, mgmtVars,
                       clientVars, connVars, tokVars>>

\* The CBS channel changes status (a reply, a timeout, the token ageing).
CbsEvent ==
    /\ \E s \in CbsNextStatus(cbs_status) : cbs_status' = s
    /\ UNCHANGED <<retries, policy_retries, has_credentials, token,
                   ht, dw, err_calls, now, mgmtVars, clientVars, connVars, tokVars>>

CbsNext == CbsDoWork \/ CbsEvent

SpecCbs == CbsInit /\ [][CbsNext]_vars

(***************************************************************************)
(* C4: with a retry policy of R retries, each of the first R handle_token  *)
(* calls that read Error returns in_progress = true, re-issues the         *)
(* PUT-token request and adds one to the retry counter; the next such call *)
(* raises TokenAuthFailure, issues nothing and leaves the counter alone.   *)
(***************************************************************************)
C4_RetryThenFail ==
    (ht.called /\ ht.status = "Error") =>
        /\ err_calls <= policy_retries =>
              /\ ht.exc = "None"
              /\ ht.in_progress /\ ~ht.timeout
              /\ ht.call = "authenticate"
              /\ ht.after = ht.before + 1
              /\ ht.after = err_calls
        /\ err_calls > policy_retries =>
              /\ ht.exc = "TokenAuthFailure"
              /\ ht.call = "none"
              /\ ht.after = ht.before
              /\ ht.after = policy_retries

C4_Witness ==
    /\ ht.called /\ ht.status = "Error"
    /\ policy_retries = MaxRetries
    /\ err_calls = policy_retries + 1
    /\ ht.exc = "TokenAuthFailure"

(***************************************************************************)
(* C5: handle_token raises AuthenticationException whenever the status it  *)
(* reads is Failure, so a do_work call in that status never reaches the    *)
(* readiness check or the run step.                                        *)
(***************************************************************************)
C5_FailureRaises ==
    (ht.called /\ ht.status = "Failure") =>
        /\ ht.exc = "AuthenticationException"
        /\ dw.path = "AuthenticationException"
        /\ ~dw.ran

(***************************************************************************)
(* C11: whenever handle_token reports timed_out = true, do_work raises     *)
(* TimeoutError, whatever the shutdown flag is, and neither ticks the      *)
(* connection nor runs the run step.                                       *)
(***************************************************************************)
C11_TimeoutIsFatal ==
    (ht.called /\ ht.exc = "None" /\ ht.timeout) =>
        /\ dw.path = "TimeoutError"
        /\ dw.ticks = 0
        /\ ~dw.ran

(***************************************************************************)
(* C12: a do_work call that reads a CBS status of Idle, InProgress,        *)
(* RefreshRequired, or Error with retries left, on a client that is not    *)
(* shutting down, only drives one connection tick: it does not reach the   *)
(* run step, and a PUT or REFRESH that handle_token issued is reported as  *)
(* in_progress to that call.                                               *)
(***************************************************************************)
C12_NoRunWhileRenewing ==
    (ht.called /\ ht.exc = "None" /\ ~shutdown
        /\ ht.status \in {"Idle", "InProgress", "RefreshRequired", "Error"}) =>
        /\ dw.path = "AuthTick"
        /\ dw.ticks = 1
        /\ ~dw.ran
        /\ ht.call /= "none" => ht.in_progress

(***************************************************************************)
(* C21: a handle_token call that reads Expired raises TokenExpired; one    *)
(* that reads RefreshRequired on an authenticator without both username    *)
(* and password raises TokenExpired too, issues no REFRESH and leaves the  *)
(* stored token and the status of the CBS channel as they were.            *)
(***************************************************************************)
C21_ExpiredIsFatal ==
    [][((\/ cbs_status = "Expired"
         \/ cbs_status = "RefreshRequired" /\ ~has_credentials)
        /\ CbsDoWork) =>
          /\ ht'.exc = "TokenExpired" /\ ht'.call = "none"
          /\ token' = token /\ cbs_status' = cbs_status
          /\ dw'.ticks = 0]_vars

\* Both cases have happened: the last call read RefreshRequired without
\* credentials and raised.
C21_Witness ==
    /\ ht.called /\ ht.status = "RefreshRequired" /\ ~has_credentials
    /\ ht.exc = "TokenExpired" /\ ht.call = "none"

(***************************************************************************)
(* C32: the retry counter of an authenticator never decreases; a           *)
(* handle_token call changes it only when it reads Error, and then by one; *)
(* it never exceeds the retries of the policy, so no more retry PUTs than  *)
(* that are issued in the life of the authenticator, whatever successful   *)
(* authentications lie between the errors.                                 *)
(***************************************************************************)
C32_RetriesNeverReset ==
    /\ [][/\ retries' >= retries
          /\ retries' /= retries =>
                /\ cbs_status = "Error" /\ retries' = retries + 1
                /\ ht'.call = "authenticate"]_vars
    /\ [](retries <= policy_retries)

\* A token was accepted and refreshed after a retry, and the next Error is
\* refused because the retries made before still count.
C32_Witness ==
    /\ policy_retries >= 1 /\ retries = policy_retries /\ token >= 1
    /\ ht.called /\ ht.status = "Error" /\ ht.exc = "TokenAuthFailure"

(***************************************************************************)
(* MgmtOperation.execute                                                   *)
(***************************************************************************)
\* dict[key] = value
DictSet(d, k, v) == [i \in DOMAIN d \cup {k} |-> IF i = k THEN v ELSE d[i]]

\* dict.pop(key), the dictionary that is left
DictPop(d, k) == [i \in DOMAIN d \ {k} |-> d[i]]

\* The deadline test with a strict comparison.
MgmtTimedOutStrict(t, start, timeout) == timeout > 0 /\ (t - start) > timeout

\* if timeout > 0: now = get_current_ms(); if (now - start_time) >= timeout
MgmtTimedOut(t, start, timeout) == timeout > 0 /\ (t - start) >= timeout

\* The loop of execute that goes on while the placeholder is empty, though
\* an error is recorded.
MgmtWaitingIgnoresError(d, k, err) == d[k] = 0

\* while not self._responses[operation_id] and not self.mgmt_error
MgmtWaiting(d, k, err) == d[k] = 0 /\ err = "None"

\* on_complete of the requests in done: each stores the response under the
\* operation id it was bound to.  A response is written as the id of the
\* request it answers, and None as 0.
OnComplete(d, done) ==
    [i \in DOMAIN d \cup done |-> IF i \in done THEN i ELSE d[i]]

\* MgmtOperation.__init__: open() fails with ValueError, or not.
MgmtInit ==
    /\ CbsIdle /\ ConnIdle /\ TokIdle
    /\ ClientIdle
    /\ msg_timeout = 0
    /\ now = 0
    /\ responses = <<>>
    /\ mgmt_error \in {"None", "AMQPConnectionError"}
    /\ next_op = 1
    /\ outstanding = {}
    /\ finished = {}
    /\ ex = NoExecute

\* execute, up to the loop: a fresh id, the placeholder, the request.
ExecuteStart ==
    /\ ex.pc \in {"idle", "done"}
    /\ next_op <= MaxOps
    /\ \E k \in 0..MaxMgmtTimeout :
          ex' = [NoExecute EXCEPT !.pc = "loop", !.id = next_op,
                                  !.start = now, !.timeout = k * ClockStep]
    /\ responses' = DictSet(responses, next_op, 0)
    /\ outstanding' = outstanding \cup {next_op}
    /\ next_op' = next_op + 1
    /\ UNCHANGED <<cbsVars, now, mgmt_error, finished, clientVars, connVars, tokVars>>

\* One evaluation of the loop condition and what follows it: the timeout
\* test and one connection.work(), or the way out of the loop.  ex.turn
\* changes with every turn of the loop, so that a turn in which nothing
\* arrives is a step of its own.
ExecuteIter ==
    /\ ex.pc = "loop"
    /\ IF MgmtWaiting(responses, ex.id, mgmt_error)
       THEN IF MgmtTimedOut(now, ex.start, ex.timeout)
            THEN /\ ex' = [ex EXCEPT !.pc = "done", !.outcome = "TimeoutError",
                                     !.ended = now]
                 /\ finished' = finished \cup {ex.id}
                 /\ UNCHANGED <<responses, mgmt_error, outstanding>>
            ELSE \E done \in SUBSET outstanding, err \in BOOLEAN :
                 /\ responses' = OnComplete(responses, done)
                 /\ outstanding' = outstanding \ done
                 /\ mgmt_error' = IF err THEN "ValueError" ELSE mgmt_error
                 /\ ex' = [ex EXCEPT !.iters = IF @ < 2 THEN @ + 1 ELSE @,
                                     !.last_iter = now,
                                     !.completed = @ \/ ex.id \in done,
                                     !.turn = ~@]
                 /\ UNCHANGED finished
       ELSE /\ IF mgmt_error /= "None"
               THEN /\ ex' = [ex EXCEPT !.pc = "done", !.outcome = mgmt_error,
                                        !.ended = now]
                    /\ UNCHANGED responses
               ELSE /\ ex' = [ex EXCEPT !.pc = "done", !.outcome = "response",
                                        !.result = responses[ex.id],
                                        !.ended = now]
                    /\ responses' = DictPop(responses, ex.id)
            /\ finished' = finished \cup {ex.id}
            /\ UNCHANGED <<mgmt_error, outstanding>>
    /\ UNCHANGED <<cbsVars, now, next_op, clientVars, connVars, tokVars>>

\* connection.work() driven by the client between two execute calls: late
\* completions and link errors arrive here.
MgmtConnectionWork ==
    /\ ex.pc \in {"idle", "done"}
    /\ \E done \in SUBSET outstanding, err \in BOOLEAN :
          /\ done /= {} \/ err
          /\ responses' = OnComplete(responses, done)
          /\ outstanding' = outstanding \ done
          /\ mgmt_error' = IF err THEN "ValueError" ELSE mgmt_error
    /\ UNCHANGED <<cbsVars, now, next_op, finished, ex, clientVars, connVars, tokVars>>

\* The clock moves on.
ClockTick ==
    /\ now < MaxTime * ClockStep
    /\ now' = now + ClockStep
    /\ UNCHANGED <<cbsVars, mgmtVars, clientVars, connVars, tokVars>>

MgmtNext == ExecuteStart \/ ExecuteIter \/ MgmtConnectionWork \/ ClockTick

SpecMgmt == MgmtInit /\ [][MgmtNext]_vars

\* The loop of execute keeps turning while the call is blocked and time
\* passes; nothing obliges the link to answer or to fail.
SpecMgmtLive ==
    MgmtInit /\ [][MgmtNext]_vars /\ WF_vars(ExecuteIter) /\ WF_vars(ClockTick)

(***************************************************************************)
(* C33: execute returns the response stored under its own operation id,    *)
(* and a completion that arrives for an operation whose call has ended     *)
(* leaves no response behind in the map.                                   *)
(***************************************************************************)
C33_OwnResponseOnly ==
    /\ (ex.pc = "done" /\ ex.outcome = "response") => ex.result = ex.id
    /\ \A i \in finished : i \in DOMAIN responses => responses[i] = 0

(***************************************************************************)
(* C34: once a management link error is recorded, whether at open time,    *)
(* before the call or during it, the next turn of the loop of execute      *)
(* ends the call by raising that error, with no further connection.work()  *)
(* and whatever the timeout given; a call never returns a response while   *)
(* an error is recorded, even if its response has arrived.                 *)
(***************************************************************************)
C34_RecordedErrorRaised ==
    [][(ex.pc = "loop" /\ ex' /= ex) =>
          /\ mgmt_error /= "None" =>
                /\ ex'.pc = "done" /\ ex'.outcome = mgmt_error
                /\ ex'.iters = ex.iters /\ ex'.result = 0
                /\ UNCHANGED <<responses, outstanding, mgmt_error>>
          /\ ex'.outcome = "response" => mgmt_error = "None"]_vars

\* A call without a timeout has raised the link error recorded during it,
\* though its own response had arrived.
C34_Witness ==
    /\ ex.pc = "done" /\ ex.timeout = 0 /\ ex.outcome = "ValueError"
    /\ ex.iters >= 1 /\ ex.completed

(***************************************************************************)
(* C15: no blocking operation waits forever.  For MgmtOperation.execute:   *)
(* every call, whatever timeout it was given (0 included), returns or      *)
(* raises, also when no response and no link error ever arrives.  A call   *)
(* whose deadline lies beyond the last instant of the clock is left out.   *)
(***************************************************************************)
C15_ExecuteEnds ==
    (ex.pc = "loop"
        /\ ex.start + ex.timeout <= MaxTime * ClockStep) ~> (ex.pc = "done")

(***************************************************************************)
(* C6: execute with a timeout T > 0, on a link that neither completes the  *)
(* request nor records an error, raises TimeoutError at the first loop     *)
(* iteration at which T or more has elapsed since the call started: no     *)
(* iteration ticks the connection at or past the deadline, and the call    *)
(* returns no response.                                                    *)
(***************************************************************************)
C6_TimeoutAtDeadline ==
    (ex.pc /= "idle" /\ ex.timeout > 0 /\ ~ex.completed
        /\ mgmt_error = "None") =>
        /\ ex.iters > 0 => ex.last_iter - ex.start < ex.timeout
        /\ ex.pc = "done" =>
              /\ ex.outcome = "TimeoutError"
              /\ ex.result = 0
              /\ ex.ended - ex.start >= ex.timeout

C6_Witness ==
    /\ ex.pc = "done" /\ ex.timeout = MaxMgmtTimeout * ClockStep
    /\ ~ex.completed
    /\ mgmt_error = "None" /\ ex.iters > 0
    /\ ex.outcome = "TimeoutError"

(***************************************************************************)
(* C7: once an execute call has ended, on any path, its operation id is no *)
(* longer a key of the pending-response map.                               *)
(***************************************************************************)
C7_NoLeakedIds == \A i \in finished : i \notin DOMAIN responses

(***************************************************************************)
(* AMQPClient.open and AMQPClient.close                                    *)
(***************************************************************************)
Inc(n) == IF n < 2 THEN n + 1 ELSE n

\* connection.cbs of the Connection the client holds
ConnCbs == IF connection = "Ext" THEN ext_cbs ELSE own_cbs

\* open(connection): conn is "Ext" for an injected Connection, "None" for
\* no argument.  Every base field but the shutdown flag is assigned.
BaseOpen(conn) ==
    IF session /= "None"
    THEN UNCHANGED <<auth_cbs, session, connection, ext_connection, own_cbs,
                     ext_cbs, destroys>>
    ELSE LET a == IF conn = "Ext" THEN ext_auth_cbs ELSE auth_cbs
             c == IF conn = "Ext" THEN ext_cbs ELSE FALSE
         IN  /\ auth_cbs' = a
             /\ ext_connection' = (conn = "Ext" \/ ext_connection)
             /\ connection' = IF conn = "Ext" THEN "Ext" ELSE "Own"
             /\ session' = IF c \/ a THEN "CbsSession" ELSE "Session"
             /\ own_cbs' = IF conn = "Ext" THEN own_cbs ELSE a
             /\ ext_cbs' = IF conn = "Ext" THEN (c \/ a) ELSE ext_cbs
             /\ destroys' = [NoDestroys EXCEPT !.ext_conn = destroys.ext_conn]

\* The test of close() with the session test dropped: it tears down again.
AlreadyClosedNever(s) == FALSE

\* if not self._session: return  # already closed.
AlreadyClosed(s) == s = "None"

\* The owner test of close() that ignores how the client was opened.
OwnsConnectionAlways(ext) == TRUE

\* if not self._ext_connection: self._connection.destroy()
OwnsConnection(ext) == ~ext

\* The CBS test of close() that ignores how the client was opened.
ClosesCbsAlways(cbs, ext) == cbs

\* if self._connection.cbs and not self._ext_connection:
\*     self._auth.close_authenticator(); self._connection.cbs = None
ClosesCbs(cbs, ext) == cbs /\ ~ext

\* close(): every base field but the shutdown flag and the auth is assigned.
\* d0 holds the destroy calls counted so far, those of the subclass's close
\* included.
BaseClose(d0) ==
    IF AlreadyClosed(session)
    THEN /\ destroys' = d0
         /\ UNCHANGED <<session, connection, ext_connection, own_cbs, ext_cbs>>
    ELSE LET closeCbs == ClosesCbs(ConnCbs, ext_connection)
             d1 == IF closeCbs
                   THEN [d0 EXCEPT !.cbs_auth = Inc(@), !.session = Inc(@)]
                   ELSE IF ~ConnCbs
                        THEN [d0 EXCEPT !.session = Inc(@)]
                        ELSE d0
             d2 == IF OwnsConnection(ext_connection)
                   THEN IF connection = "Ext"
                        THEN [d1 EXCEPT !.ext_conn = Inc(@)]
                        ELSE [d1 EXCEPT !.conn = Inc(@)]
                   ELSE d1
         IN  /\ own_cbs' = IF closeCbs /\ connection = "Own" THEN FALSE
                           ELSE own_cbs
             /\ ext_cbs' = IF closeCbs /\ connection = "Ext" THEN FALSE
                           ELSE ext_cbs
             /\ session' = "None"
             /\ connection' = "None"
             /\ destroys' = d2
             /\ UNCHANGED ext_connection

(***************************************************************************)
(* SendClient                                                              *)
(***************************************************************************)
MessageSenderState == {"Idle", "Opening", "Open", "Closing", "Error"}

\* constants.DONE_STATES with WaitingForAck counted as done.
IsDoneLoose(st) == st \in {"Complete", "Failed", "WaitingForAck"}

\* message.state in [MessageState.Complete, MessageState.Failed]
IsDone(st) == st \in {"Complete", "Failed"}

\* Message._on_message_sent(result): the state the message ends in.
OnMessageSent(result) == IF result = "Ok" THEN "Complete" ELSE "Failed"

\* The expiry test of the send run-step without the msg_timeout > 0 guard.
MsgExpiredNoGuard(t, idle, timeout) == (t - idle) > timeout * MsPerSec

\* The expiry test that never fires.
MsgExpiredNever(t, idle, timeout) == FALSE

\* elapsed_time = (current_time - message.idle_time)/1000
\* self._msg_timeout > 0 and elapsed_time > self._msg_timeout
MsgExpired(t, idle, timeout) ==
    timeout > 0 /\ (t - idle) > timeout * MsPerSec

\* timeout = self._msg_timeout - elapsed_time if self._msg_timeout > 0 else 0
\* (in milliseconds here, to stay in the integers)
SendBudget(t, idle, timeout) ==
    IF timeout > 0 THEN timeout * MsPerSec - (t - idle) ELSE 0

\* The messages of a sequence, as a set.
Range(q) == {q[i] : i \in DOMAIN q}

\* The run step that removes nothing from the pending list.
PruneNothing(pend, st) == pend

\* list.remove applied to every done message of the copy pending[:]
PruneDone(pend, st) == SelectSeq(pend, LAMBDA m : ~IsDone(st[m]))

\* The state of message m after the loop of _client_run; raises are the
\* messages for which send_async raises.
RunState(m, pend, st, idle, t, timeout, raises) ==
    IF m \in Range(pend) /\ st[m] = "WaitingToBeSent"
    THEN IF MsgExpired(t, idle[m], timeout) THEN OnMessageSent("Timeout")
         ELSE IF m \in raises THEN OnMessageSent("Error")
         ELSE "WaitingForAck"
    ELSE st[m]

\* The send_async calls of a loop that walks the pending list from its end.
RunHandedNewestFirst(pend, st, idle, t, timeout) ==
    LET h == SelectSeq(pend, LAMBDA m : st[m] = "WaitingToBeSent"
                                        /\ ~MsgExpired(t, idle[m], timeout))
    IN  [i \in DOMAIN h |-> h[Len(h) + 1 - i]]

\* The send_async calls of the loop of _client_run, in the order made.
RunHanded(pend, st, idle, t, timeout) ==
    LET h == SelectSeq(pend, LAMBDA m : st[m] = "WaitingToBeSent"
                                        /\ ~MsgExpired(t, idle[m], timeout))
    IN  h

\* The state changes the sender link can make in one connection.work().
SenderNext(ms) ==
    CASE ms = "None" -> {"None"}
      [] ms = "Idle" -> {"Idle", "Opening", "Open", "Error"}
      [] ms = "Opening" -> {"Opening", "Open", "Error"}
      [] ms = "Open" -> {"Open", "Closing", "Error"}
      [] ms = "Closing" -> {"Closing", "Error"}
      [] OTHER -> {ms}

MessageSendResult == {"Ok", "Error", "Timeout"}

\* Settlements for messages whether or not the Sender holds them.
SettleAny(infl) == UNION {[S -> MessageSendResult] : S \in SUBSET Msgs}

\* The settlements one connection.work() can deliver: a send result for
\* each message of a subset of those the Sender holds.
SettleChoices(infl) == UNION {[S -> MessageSendResult] : S \in SUBSET infl}

\* connection.work(): the callbacks it runs on the sender and the messages.
SendTransportTick(ms, st, infl) ==
    \E ns \in SenderNext(ms), settle \in SettleChoices(infl) :
        /\ message_sender' = ns
        /\ msg_state' = [m \in Msgs |->
                            IF m \in DOMAIN settle THEN OnMessageSent(settle[m])
                            ELSE st[m]]
        /\ inflight' = infl \ DOMAIN settle

\* What the gate of do_work can decide, over every status the CBS channel
\* may be in when handle_token reads it.
GatePaths ==
    IF ConnCbs
    THEN {Gate(HandleToken(st, r, MaxRetries, c, 0), shutdown) :
             st \in CBSAuthStatus, r \in {0, MaxRetries}, c \in BOOLEAN}
    ELSE {Gate(NoCbs(0, 0), shutdown)}

\* The readiness check without the test for a failed link.
LinkFailedNever(st) == FALSE

\* The history of a do_work call: the path it took, what it returned or
\* raised, its connection.work() calls and its send_async calls in order.
NoteDoWork(path, out, ticks, handed) ==
    run' = CASE run.keep = "calls" -> [run EXCEPT !.log = @ \o handed]
             [] run.keep = "last" -> [run EXCEPT !.path = path, !.out = out,
                                                 !.ticks = ticks]
             [] OTHER -> run

\* elif self._message_sender._state == constants.MessageSenderState.Error
\* (and the same test on the receiver)
LinkFailed(st) == st = "Error"

\* SendClient._client_ready on a client with no sender yet: the sender is
\* created and opened; open() raises AMQPConnectionError or not.
SendCreateSender(out) ==
    /\ UNCHANGED pending
    /\ \/ /\ out = "AMQPConnectionError"
          /\ message_sender' = "Idle"
          /\ NoteDoWork("create", out, 0, <<>>)
          /\ UNCHANGED <<msg_state, inflight>>
       \/ /\ out = "True"
          /\ NoteDoWork("create", out, 1, <<>>)
          /\ SendTransportTick("Idle", msg_state, inflight)

\* SendClient._client_run: the loop over pending[:], then connection.work()
SendClientRun(out) ==
    /\ out = "True"
    /\ \E raises \in SUBSET {m \in Range(pending) :
                               msg_state[m] = "WaitingToBeSent"} :
          LET st1 == [m \in Msgs |->
                         RunState(m, pending, msg_state, idle_time, now,
                                  msg_timeout, raises)]
              handed == SelectSeq(RunHanded(pending, msg_state, idle_time,
                                            now, msg_timeout),
                                  LAMBDA m : m \notin raises)
          IN  /\ pending' = PruneDone(pending, msg_state)
              /\ NoteDoWork("run", out, 1,
                            RunHanded(pending, msg_state, idle_time, now,
                                      msg_timeout))
              /\ SendTransportTick(message_sender, st1,
                                   inflight \cup Range(handed))

\* SendClient.do_work; out is what the call returns ("True", "False") or
\* the exception it raises.
SendDoWork(out) ==
    \E g \in GatePaths :
        IF g \notin {"AuthTick", "Proceed"}
        THEN /\ out = g
             /\ NoteDoWork("gate", out, 0, <<>>)
             /\ UNCHANGED <<message_sender, pending, msg_state, inflight>>
        ELSE IF g = "AuthTick"
        THEN /\ out = "True"
             /\ NoteDoWork("auth", out, 1, <<>>)
             /\ SendTransportTick(message_sender, msg_state, inflight)
             /\ UNCHANGED pending
        ELSE IF message_sender = "None" THEN SendCreateSender(out)
        ELSE IF LinkFailed(message_sender)
        THEN /\ out = "AMQPConnectionError"
             /\ NoteDoWork("failed", out, 0, <<>>)
             /\ UNCHANGED <<message_sender, pending, msg_state, inflight>>
        ELSE IF message_sender /= "Open"
        THEN /\ out = "True"
             /\ NoteDoWork("not_open", out, 1, <<>>)
             /\ SendTransportTick(message_sender, msg_state, inflight)
             /\ UNCHANGED pending
        ELSE SendClientRun(out)

DoWorkOutcomes ==
    {"True", "False", "TimeoutError", "AMQPConnectionError",
     "TokenAuthFailure", "TokenExpired", "AuthenticationException"}

\* The messages not yet given to the client, lowest first.
Fresh == {m \in Msgs : msg_state[m] = "New"}

FirstFresh(n) == {m \in Fresh : Cardinality({k \in Fresh : k < m}) < n}

\* The messages of a set in increasing order, as a sequence.
RECURSIVE SeqOf(_)
SeqOf(S) ==
    IF S = {} THEN <<>>
    ELSE LET m == CHOOSE x \in S : \A y \in S : x <= y
         IN  <<m>> \o SeqOf(S \ {m})

\* The close of SendClient that leaves the pending list alone when the
\* client is closed already.
PendingAfterCloseKept(was_closed, pend) == IF was_closed THEN pend ELSE <<>>

\* The close of SendClient without its last line.
PendingAfterCloseUntouched(was_closed, pend) == pend

\* self._pending_messages = []  (the last line of SendClient.close)
PendingAfterClose(was_closed, pend) == <<>>

\* SendClient.close: the sender link, then AMQPClient.close, then the list.
\* The messages the destroyed Sender held get a failure callback, or none
\* of them does.
SendCloseEffect ==
    /\ message_sender' = "None"
    /\ \E failed \in {{}, inflight} :
          msg_state' = [m \in Msgs |-> IF m \in failed THEN OnMessageSent("Error")
                                       ELSE msg_state[m]]
    /\ inflight' = {}
    /\ pending' = PendingAfterClose(AlreadyClosed(session), pending)
    /\ BaseClose(IF message_sender /= "None"
                 THEN [destroys EXCEPT !.link = Inc(@)] ELSE destroys)

\* A SendClient of either kind of auth, not opened yet.
SendInit ==
    /\ CbsIdle /\ MgmtIdle /\ ConnIdle /\ TokIdle /\ RecvIdle /\ SendIdle
    /\ now = 0
    /\ kind = "Send"
    /\ auth_cbs \in BOOLEAN
    /\ ext_auth_cbs = FALSE /\ ext_cbs = FALSE
    /\ session = "None" /\ connection = "None" /\ ext_connection = FALSE
    /\ own_cbs = FALSE /\ shutdown = FALSE /\ destroys = NoDestroys
    /\ peer_session = "None"
    /\ msg_timeout \in {0, MaxMsgTimeout}

SendConfig == <<cbsVars, mgmtVars, connVars, tokVars, recvVars, kind, ext_auth_cbs, shutdown,
                msg_timeout, peer_session>>

SendOthers == <<SendConfig, run>>

SendIsIdle == kind = "Send" /\ sc.pc = "idle"

\* open() called by the user
SendOpen ==
    /\ SendIsIdle
    /\ BaseOpen("None")
    /\ UNCHANGED <<SendOthers, now, sendVars>>

\* The blocking call has returned or raised: the caller goes on.
SendReturn ==
    /\ kind = "Send" /\ sc.pc = "done"
    /\ sc' = NoSendCall
    /\ UNCHANGED <<SendOthers, now, baseVars, message_sender, pending,
                   msg_state, idle_time, inflight>>

\* close() called by the user
SendClose ==
    /\ SendIsIdle
    /\ SendCloseEffect
    /\ UNCHANGED <<SendOthers, now, auth_cbs, idle_time, sc>>

\* queue_message(message)
QueueMessage ==
    /\ SendIsIdle
    /\ Fresh /= {}
    /\ LET m == CHOOSE x \in FirstFresh(1) : TRUE
       IN  /\ idle_time' = [idle_time EXCEPT ![m] = now]
           /\ msg_state' = [msg_state EXCEPT ![m] = "WaitingToBeSent"]
           /\ pending' = Append(pending, m)
    /\ UNCHANGED <<SendOthers, now, auth_cbs, session, connection,
                   ext_connection, own_cbs, ext_cbs, destroys, message_sender,
                   inflight, sc>>

\* send_message(messages, close_on_done), up to its loop
SendMessageStart ==
    /\ SendIsIdle
    /\ \E n \in 1..Cardinality(Fresh), cod \in BOOLEAN :
          LET b == FirstFresh(n)
          IN  /\ idle_time' = [m \in Msgs |-> IF m \in b THEN now
                                              ELSE idle_time[m]]
              /\ msg_state' = [m \in Msgs |-> IF m \in b THEN "WaitingToBeSent"
                                              ELSE msg_state[m]]
              /\ pending' = pending \o SeqOf(b)
              /\ sc' = [NoSendCall EXCEPT !.pc = "loop", !.op = "send_message",
                                          !.batch = b, !.close_on_done = cod]
    /\ BaseOpen("None")
    /\ UNCHANGED <<SendOthers, now, message_sender, inflight>>

\* send_all_messages(close_on_done), up to the loop of wait()
SendAllStart ==
    /\ SendIsIdle
    /\ \E cod \in BOOLEAN :
          sc' = [NoSendCall EXCEPT !.pc = "loop", !.op = "send_all_messages",
                                   !.snapshot = pending,
                                   !.close_on_done = cod]
    /\ BaseOpen("None")
    /\ UNCHANGED <<SendOthers, now, message_sender, pending, msg_state,
                   idle_time, inflight>>

\* The loop condition of send_message, and that of wait()
SendLoopCondition ==
    IF sc.op = "send_message"
    THEN \E m \in sc.batch : ~IsDone(msg_state[m])
    ELSE pending /= <<>>

\* The failure test of send_message taken over every message the client
\* knows instead of over the batch of the call.
AnyFailedOfAll(batch, st) == \E m \in Msgs : st[m] = "Failed"

\* failed = [m for m in pending_batch if m.state == MessageState.Failed]
\* if any(failed)
AnyFailed(batch, st) == \E m \in batch : st[m] = "Failed"

\* What the call returns or raises once its loop has ended.
SendLoopResult ==
    IF sc.op = "send_message"
    THEN [outcome |-> IF AnyFailed(sc.batch, msg_state)
                      THEN "MessageSendFailed" ELSE "returned",
          results |-> <<>>]
    ELSE [outcome |-> "returned",
          results |-> [i \in DOMAIN sc.snapshot |-> msg_state[sc.snapshot[i]]]]

\* One turn of the loop of send_message or wait(): the condition, and one
\* do_work() or the way out.
SendLoopIter ==
    /\ kind = "Send" /\ sc.pc = "loop"
    /\ IF SendLoopCondition
       THEN \E out \in DoWorkOutcomes :
               /\ SendDoWork(out)
               /\ sc' = IF out \in {"True", "False"} THEN sc
                        ELSE [sc EXCEPT !.pc = "finally", !.outcome = out]
       ELSE /\ sc' = [sc EXCEPT !.pc = "finally",
                                !.outcome = SendLoopResult.outcome,
                                !.results = SendLoopResult.results]
            /\ UNCHANGED <<message_sender, pending, msg_state, inflight, run>>
    /\ UNCHANGED <<SendConfig, now, auth_cbs, session, connection,
                   ext_connection, own_cbs, ext_cbs, destroys, idle_time>>

\* finally: if close_on_done: self.close()
SendFinally ==
    /\ kind = "Send" /\ sc.pc = "finally"
    /\ sc' = [sc EXCEPT !.pc = "done"]
    /\ IF sc.close_on_done
       THEN SendCloseEffect
       ELSE UNCHANGED <<session, connection, ext_connection, own_cbs, ext_cbs,
                        destroys, message_sender, pending, msg_state, inflight>>
    /\ UNCHANGED <<SendOthers, now, auth_cbs, idle_time>>

SendNext ==
    \/ SendOpen \/ SendClose \/ QueueMessage \/ SendMessageStart
    \/ SendAllStart \/ SendLoopIter \/ SendFinally \/ SendReturn
    \/ ClockTick

SpecSend == SendInit /\ [][SendNext]_vars

\* A SendClient of either kind of auth, not opened yet, with the history
\* of its do_work calls kept.
RunStart(keep) ==
    /\ CbsIdle /\ MgmtIdle /\ ConnIdle /\ TokIdle /\ RecvIdle
    /\ message_sender = "None" /\ pending = <<>>
    /\ msg_state = [m \in Msgs |-> "New"]
    /\ idle_time = [m \in Msgs |-> 0]
    /\ inflight = {} /\ sc = NoSendCall
    /\ run = [NoRun EXCEPT !.keep = keep]
    /\ now = 0
    /\ kind = "Send"
    /\ auth_cbs \in BOOLEAN
    /\ ext_auth_cbs = FALSE /\ ext_cbs = FALSE
    /\ session = "None" /\ connection = "None" /\ ext_connection = FALSE
    /\ own_cbs = FALSE /\ shutdown = FALSE /\ destroys = NoDestroys
    /\ peer_session = "None"
    /\ msg_timeout \in {0, MaxMsgTimeout}

\* do_work() called by the user on an opened client
RunDoWork ==
    /\ SendIsIdle /\ session /= "None"
    /\ \E out \in DoWorkOutcomes : SendDoWork(out)
    /\ UNCHANGED <<SendConfig, now, auth_cbs, session, connection,
                   ext_connection, own_cbs, ext_cbs, destroys, idle_time, sc>>

RunNext ==
    \/ SendOpen \/ SendClose \/ QueueMessage \/ RunDoWork
    \/ ClockTick

RunInit == RunStart("calls")

SpecRun == RunInit /\ [][RunNext]_vars

TickInit == RunStart("last")

\* The calls of the user within one millisecond: the paths of do_work other
\* than the run step do not read the clock.
TickNext == SendOpen \/ SendClose \/ QueueMessage \/ RunDoWork

SpecTick == TickInit /\ [][TickNext]_vars

(***************************************************************************)
(* SendClientAsync: the run step and do_work_async, as written in          *)
(* client_async.py.                                                        *)
(***************************************************************************)
\* elapsed_time = (current_time - message.idle_time)/1000
\* self._msg_timeout > 0 and elapsed_time/1000 > self._msg_timeout
MsgExpiredAsync(t, idle, timeout) ==
    timeout > 0 /\ (t - idle) > timeout * MsPerSec * MsPerSec

\* The state of message m after the loop of the asynchronous _client_run.
RunStateAsync(m, pend, st, idle, t, timeout, raises) ==
    IF m \in Range(pend) /\ st[m] = "WaitingToBeSent"
    THEN IF MsgExpiredAsync(t, idle[m], timeout) THEN OnMessageSent("Timeout")
         ELSE IF m \in raises THEN OnMessageSent("Error")
         ELSE "WaitingForAck"
    ELSE st[m]

\* The send_async calls of the loop of the asynchronous _client_run.
RunHandedAsync(pend, st, idle, t, timeout) ==
    SelectSeq(pend, LAMBDA m : st[m] = "WaitingToBeSent"
                               /\ ~MsgExpiredAsync(t, idle[m], timeout))

\* SendClientAsync._client_run: the loop, then connection.work_async()
SendClientRunAsync(out) ==
    /\ out = "True"
    /\ \E raises \in SUBSET {m \in Range(pending) :
                               msg_state[m] = "WaitingToBeSent"} :
          LET st1 == [m \in Msgs |->
                         RunStateAsync(m, pending, msg_state, idle_time, now,
                                       msg_timeout, raises)]
              calls == RunHandedAsync(pending, msg_state, idle_time, now,
                                      msg_timeout)
              handed == SelectSeq(calls, LAMBDA m : m \notin raises)
          IN  /\ pending' = PruneDone(pending, msg_state)
              /\ NoteDoWork("run", out, 1, calls)
              /\ SendTransportTick(message_sender, st1,
                                   inflight \cup Range(handed))

\* SendClientAsync.do_work_async, with the asynchronous _client_ready
SendDoWorkAsync(out) ==
    \E g \in GatePaths :
        IF g \notin {"AuthTick", "Proceed"}
        THEN /\ out = g
             /\ NoteDoWork("gate", out, 0, <<>>)
             /\ UNCHANGED <<message_sender, pending, msg_state, inflight>>
        ELSE IF g = "AuthTick"
        THEN /\ out = "True"
             /\ NoteDoWork("auth", out, 1, <<>>)
             /\ SendTransportTick(message_sender, msg_state, inflight)
             /\ UNCHANGED pending
        ELSE IF message_sender = "None" THEN SendCreateSender(out)
        ELSE IF LinkFailed(message_sender)
        THEN /\ out = "AMQPConnectionError"
             /\ NoteDoWork("failed", out, 0, <<>>)
             /\ UNCHANGED <<message_sender, pending, msg_state, inflight>>
        ELSE IF message_sender /= "Open"
        THEN /\ out = "True"
             /\ NoteDoWork("not_open", out, 1, <<>>)
             /\ SendTransportTick(message_sender, msg_state, inflight)
             /\ UNCHANGED pending
        ELSE SendClientRunAsync(out)

\* open_async() called by the user
AsyncOpen ==
    /\ SendIsIdle
    /\ BaseOpen("None")
    /\ UNCHANGED <<SendOthers, now, sendVars>>

\* do_work_async() called by the user on an opened client
AsyncDoWork ==
    /\ SendIsIdle /\ session /= "None"
    /\ \E out \in DoWorkOutcomes : SendDoWorkAsync(out)
    /\ UNCHANGED <<SendConfig, now, auth_cbs, session, connection,
                   ext_connection, own_cbs, ext_cbs, destroys, idle_time, sc>>

AsyncInit == RunStart("calls")

AsyncNext == AsyncOpen \/ QueueMessage \/ AsyncDoWork \/ ClockTick

SpecAsync == AsyncInit /\ [][AsyncNext]_vars

(***************************************************************************)
(* C26: the asynchronous run step decides every message as the synchronous *)
(* one would from the same pending list, clock and msg_timeout: it makes   *)
(* the send_async calls the synchronous step would make, in the same       *)
(* order, and fails with Timeout the messages that step would fail.        *)
(***************************************************************************)
C26_AsyncDecidesAsSync ==
    [][(message_sender = "Open" /\ session /= "None"
        /\ SendClientRunAsync("True")) =>
          /\ run'.log = run.log \o RunHanded(pending, msg_state, idle_time,
                                              now, msg_timeout)
          /\ \A m \in Range(pending) :
                (/\ msg_state[m] = "WaitingToBeSent"
                 /\ MsgExpired(now, idle_time[m], msg_timeout))
                => msg_state'[m] = "Failed"]_vars

(***************************************************************************)
(* ConnectionAsync.work_async, called by several coroutines of one event   *)
(* loop.  A coroutine runs without interruption from one await to the      *)
(* next; _conn.do_work runs in a thread of the executor.                   *)
(***************************************************************************)
\* A lock that lets every caller in.
LockFreeAlways(locked) == TRUE

\* asyncio.Lock.acquire returns at once only when the lock is not held.
LockFree(locked) == ~locked

ConnOthers == <<cbsVars, now, mgmtVars, clientVars, tokVars>>

\* A coroutine calls work_async and reaches `await self._lock.acquire()`.
WorkAsyncCall(c) ==
    /\ co[c] = "idle"
    /\ conn_ticks + Cardinality(in_flight) < MaxTicks
    /\ co' = [co EXCEPT ![c] = "acquire"]
    /\ UNCHANGED <<conn_lock, in_flight, conn_ticks, ConnOthers>>

\* acquire() returns to the coroutine, which goes on, without another
\* await in between, to hand _conn.do_work to the executor and awaits it.
WorkAsyncAcquire(c) ==
    /\ co[c] = "acquire"
    /\ LockFree(conn_lock)
    /\ conn_lock' = TRUE
    /\ in_flight' = in_flight \cup {c}
    /\ co' = [co EXCEPT ![c] = "await"]
    /\ UNCHANGED <<conn_ticks, ConnOthers>>

\* _conn.do_work ends in the executor, by returning or by raising.  The
\* coroutine that awaits it goes on to the release, or leaves work_async
\* with the exception and the lock still held; a coroutine cancelled
\* meanwhile is not there any more.
WorkAsyncTickEnds(c) ==
    /\ c \in in_flight
    /\ in_flight' = in_flight \ {c}
    /\ conn_ticks' = conn_ticks + 1
    /\ \E raised \in BOOLEAN :
          co' = IF co[c] /= "await" THEN co
                ELSE [co EXCEPT ![c] = IF raised THEN "idle" ELSE "release"]
    /\ UNCHANGED <<conn_lock, ConnOthers>>

\* self._lock.release()
WorkAsyncRelease(c) ==
    /\ co[c] = "release"
    /\ conn_lock' = FALSE
    /\ co' = [co EXCEPT ![c] = "idle"]
    /\ UNCHANGED <<in_flight, conn_ticks, ConnOthers>>

\* The task of the coroutine is cancelled: CancelledError is raised at its
\* await, and the rest of work_async is skipped.  A _conn.do_work already
\* running in the executor runs on.
WorkAsyncCancelled(c) ==
    /\ co[c] \in {"acquire", "await", "release"}
    /\ co' = [co EXCEPT ![c] = "idle"]
    /\ UNCHANGED <<conn_lock, in_flight, conn_ticks, ConnOthers>>

ConnInit ==
    /\ CbsIdle /\ MgmtIdle /\ ConnIdle /\ TokIdle /\ SendIdle /\ RecvIdle
    /\ BaseIdle /\ shutdown = FALSE /\ msg_timeout = 0
    /\ now = 0

ConnNext ==
    \E c \in Coroutines :
        \/ WorkAsyncCall(c) \/ WorkAsyncAcquire(c) \/ WorkAsyncTickEnds(c)
        \/ WorkAsyncRelease(c) \/ WorkAsyncCancelled(c)

SpecConn == ConnInit /\ [][ConnNext]_vars

(***************************************************************************)
(* C30: with several coroutines in work_async on one ConnectionAsync, at   *)
(* most one _conn.do_work is running at any time, and it runs only while   *)
(* the lock is held; so a second one starts only after the first ended.    *)
(***************************************************************************)
C30_OneTickInFlight ==
    /\ Cardinality(in_flight) <= 1
    /\ in_flight /= {} => conn_lock

\* One tick has ended, the next is running, and another coroutine waits
\* for the lock.
C30_Witness ==
    /\ conn_ticks >= 1 /\ in_flight /= {}
    /\ \E c \in Coroutines : co[c] = "acquire" /\ c \notin in_flight

(***************************************************************************)
(* C40: work_async releases the lock on every exit path: when the tick a   *)
(* coroutine awaits ends and the coroutine leaves work_async in the same   *)
(* step, which is what a raising _conn.do_work makes it do, the lock is    *)
(* not left held.                                                          *)
(***************************************************************************)
C40_LockReleasedOnRaise ==
    [][\A c \in Coroutines :
          (/\ co[c] = "await" /\ c \in in_flight
           /\ co'[c] = "idle" /\ c \notin in_flight')
          => ~conn_lock']_vars

(***************************************************************************)
(* handle_token called by several threads, or handle_token_async by        *)
(* several coroutines, on one authenticator: the lock, the read of the     *)
(* status, the branch taken on it, and the release in the finally clause.  *)
(***************************************************************************)
TokOthers == <<policy_retries, has_credentials, ht, dw, err_calls, now,
               mgmtVars, clientVars, connVars>>

\* A caller enters handle_token and reaches self._lock.acquire().
HtCall(c) ==
    /\ hc[c].pc = "idle"
    /\ hc' = [hc EXCEPT ![c] = [NoTokenCall EXCEPT !.pc = "acquire"]]
    /\ UNCHANGED <<tok_lock, cbs_status, retries, token, TokOthers>>

\* self._lock.acquire() returns.
HtAcquire(c) ==
    /\ hc[c].pc = "acquire"
    /\ LockFree(tok_lock)
    /\ tok_lock' = TRUE
    /\ hc' = [hc EXCEPT ![c].pc = "read"]
    /\ UNCHANGED <<cbs_status, retries, token, TokOthers>>

\* auth_status = self._cbs_auth.get_status()
HtRead(c) ==
    /\ hc[c].pc = "read"
    /\ hc' = [hc EXCEPT ![c].pc = "act", ![c].status = cbs_status]
    /\ UNCHANGED <<tok_lock, cbs_status, retries, token, TokOthers>>

\* The branch of the chain for the status read: the counter, the token and
\* the request on the CBS channel, or the exception.
HtAct(c) ==
    /\ hc[c].pc = "act"
    /\ LET h == HandleToken(hc[c].status, retries, policy_retries,
                            has_credentials, token)
       IN  /\ retries' = h.retries
           /\ token' = h.token
           /\ cbs_status' = StatusAfterCall(h.call, cbs_status)
           /\ hc' = [hc EXCEPT ![c].pc = "finally", ![c].exc = h.exc]
    /\ UNCHANGED <<tok_lock, TokOthers>>

\* finally: self._lock.release(); then the return or the raise.
HtRelease(c) ==
    /\ hc[c].pc = "finally"
    /\ tok_lock' = FALSE
    /\ hc' = [hc EXCEPT ![c] = NoTokenCall]
    /\ UNCHANGED <<cbs_status, retries, token, TokOthers>>

\* The CBS channel changes status while the callers are at work.
TokEvent ==
    /\ \E s \in CbsNextStatus(cbs_status) : cbs_status' = s
    /\ UNCHANGED <<retries, token, tok_lock, hc, TokOthers>>

TokInit == CbsInit

TokNext ==
    \/ \E c \in Callers :
          HtCall(c) \/ HtAcquire(c) \/ HtRead(c) \/ HtAct(c) \/ HtRelease(c)
    \/ TokEvent

SpecTok == TokInit /\ [][TokNext]_vars

(***************************************************************************)
(* C31: at most one caller of handle_token is between the read of the      *)
(* status and the release, and it holds the lock; the counter and the      *)
(* token change, and a request goes out, only in the step of that caller,  *)
(* once per status read: one more retry only for a status read as Error;   *)
(* and the lock is free whenever no caller is inside, whether the last one *)
(* returned or raised.                                                     *)
(***************************************************************************)
InsideToken == {c \in Callers : hc[c].pc \in {"read", "act", "finally"}}

C31_OneTokenHandler ==
    /\ [](/\ Cardinality(InsideToken) <= 1
          /\ tok_lock <=> InsideToken /= {})
    /\ [][(retries' /= retries \/ token' /= token) =>
             \E c \in Callers :
                /\ hc[c].pc = "act" /\ hc'[c].pc = "finally"
                /\ hc[c].status \in {"Error", "RefreshRequired"}
                /\ retries' /= retries =>
                      hc[c].status = "Error" /\ retries' = retries + 1
                /\ token' /= token => hc[c].status = "RefreshRequired"]_vars

\* One caller has raised TokenAuthFailure and is about to release the lock
\* while another waits for it.
C31_Witness ==
    \E c, d \in Callers :
        /\ hc[c].pc = "finally" /\ hc[c].exc = "TokenAuthFailure"
        /\ hc[d].pc = "acquire" /\ tok_lock

(***************************************************************************)
(* ReceiveClient                                                           *)
(***************************************************************************)
Min(a, b) == IF a < b THEN a ELSE b

\* The truth value Python gives a timestamp: None and 0 are false.
Truthy(t) == t > 0

\* The state changes the receiver link can make in one connection.work().
ReceiverNext(mr) ==
    CASE mr = "None" -> {"None"}
      [] mr = "Idle" -> {"Idle", "Opening", "Open", "Error"}
      [] mr = "Opening" -> {"Opening", "Open", "Error"}
      [] mr = "Open" -> {"Open", "Closing", "Error"}
      [] mr = "Closing" -> {"Closing", "Error"}
      [] OTHER -> {mr}

\* The messages one connection.work() delivers after d earlier ones.
Arrivals(d, k) == [i \in 1..k |-> d + i]

\* How many messages one connection.work() can deliver: none unless the
\* link is open, and the source holds MaxDelivered messages in all.
ArrivalCounts(mr, ns, d) ==
    IF "Open" \in {mr, ns} THEN 0..Min(MaxPerTick, MaxDelivered - d) ELSE {0}

\* A _message_received that puts the message at the head of the queue.
MessageReceivedAtHead(x, msgs) ==
    [x EXCEPT !.was = (x.was \/ msgs /= <<>>),
              !.q = IF x.q = QueueNone THEN x.q ELSE msgs \o x.q,
              !.delivered = x.delivered + Len(msgs)]

\* _message_received: the flag is set, and the message is put on the queue
\* if there is one.
MessageReceived(x, msgs) ==
    [x EXCEPT !.was = (x.was \/ msgs /= <<>>),
              !.q = IF x.q = QueueNone THEN x.q ELSE x.q \o msgs,
              !.delivered = x.delivered + Len(msgs)]

\* connection.work(): the link changes state and messages arrive, each
\* through _message_received.
RecvTransportTick(x) ==
    UNION {{MessageReceived([x EXCEPT !.mr = ns], Arrivals(x.delivered, k)) :
               k \in ArrivalCounts(x.mr, ns, x.delivered)} :
           ns \in ReceiverNext(x.mr)}

\* The fields of the client that a do_work reads and writes.
RecvState ==
    [mr |-> message_receiver, delivered |-> delivered,
     q |-> received_messages, was |-> was_message_received,
     lat |-> last_activity_timestamp, shut |-> shutdown, out |-> "True"]

\* The idle test of _client_run with a strict comparison.
IdleTimedOutStrict(t, lat, timeout) == t - lat > timeout

\* timespan >= self._timeout
IdleTimedOut(t, lat, timeout) == t - lat >= timeout

\* The idle test entered whether or not a message has just arrived.
IdlePeriodRunsAnyway(lat, was) == Truthy(lat)

\* if self._last_activity_timestamp and not self._was_message_received
IdlePeriodRuns(lat, was) == Truthy(lat) /\ ~was

\* ReceiveClient._client_run after its connection.work()
AfterRun(x, t, timeout) ==
    LET y == IF timeout > 0
             THEN IF IdlePeriodRuns(x.lat, x.was)
                  THEN IF IdleTimedOut(t, x.lat, timeout)
                       THEN [x EXCEPT !.shut = TRUE] ELSE x
                  ELSE [x EXCEPT !.lat = t]
             ELSE x
    IN  [y EXCEPT !.was = FALSE]

\* ReceiveClient._client_ready and what do_work does after it.
RecvReadyAndRun(x, t, timeout) ==
    IF x.mr = "None"
    THEN {[x EXCEPT !.mr = "Idle", !.out = "AMQPConnectionError"]}
         \cup RecvTransportTick([x EXCEPT !.mr = "Idle"])
    ELSE IF LinkFailed(x.mr) THEN {[x EXCEPT !.out = "AMQPConnectionError"]}
    ELSE IF x.mr /= "Open" THEN RecvTransportTick([x EXCEPT !.lat = t])
    ELSE {AfterRun(y, t, timeout) : y \in RecvTransportTick(x)}

\* ReceiveClient.do_work: every way one call can end from the state x.
RecvDoWork(x, t, timeout) ==
    UNION {IF g \notin {"AuthTick", "Proceed"} THEN {[x EXCEPT !.out = g]}
           ELSE IF g = "AuthTick" THEN RecvTransportTick(x)
           ELSE RecvReadyAndRun(x, t, timeout) : g \in GatePaths}

\* The time of the step is noted when it delivered a message and when it
\* saw the receiver link become Open; a step that leaves the client closed
\* forgets both.
NoteArrival ==
    last_arrival' =
        IF session' = "None" THEN NoArrival
        ELSE [message |-> IF delivered' > delivered THEN now
                          ELSE last_arrival.message,
              link |-> IF message_receiver' = "Open"
                          /\ message_receiver /= "Open"
                       THEN now ELSE last_arrival.link]

\* The client takes the fields a do_work left.
RecvAssign(y) ==
    /\ message_receiver' = y.mr
    /\ delivered' = y.delivered
    /\ received_messages' = y.q
    /\ was_message_received' = y.was
    /\ last_activity_timestamp' = y.lat
    /\ shutdown' = y.shut

\* The deadline test of the inner loop that never fires.
DeadlinePassedNever(t, deadline) == FALSE

\* if timeout > 0 and self._counter.get_current_ms() > timeout
\* (timeout holds the deadline by then, 0 for none)
DeadlinePassed(t, deadline) == deadline > 0 /\ t > deadline

\* The validation of max_batch_size that lets one message too many through.
BatchTooLargeByTwo(n, p) == n > p + 1

\* if max_batch_size > self._prefetch: raise ValueError
BatchTooLarge(n, p) == n > p

\* The drain loop without the test on the length of the batch.
DrainCountAll(qlen, blen, n) == qlen

\* while not queue.empty() and len(batch) < max_batch_size: the number of
\* messages the loop moves from the queue to the batch.
DrainCount(qlen, blen, n) == IF n > blen THEN Min(qlen, n - blen) ELSE 0

Drain(batch, q, n) ==
    LET k == DrainCount(Len(q), Len(batch), n)
    IN  [batch |-> batch \o SubSeq(q, 1, k), q |-> SubSeq(q, k + 1, Len(q))]

\* The stall rule that never fires.
StalledNever(qsize, received) == FALSE

\* if self._received_messages.qsize() > 0 and received == 0
Stalled(qsize, received) == qsize > 0 /\ received = 0

\* while receiving and not expired and len(batch) < max_batch_size
RecvOuterCondition(receiving, expired, blen, n) ==
    receiving /\ ~expired /\ blen < n

\* The end of the inner loop: the drain, then the outer condition.
RecvAfterInner(c, q) ==
    LET d == Drain(c.batch, q, c.max_batch_size)
        again == RecvOuterCondition(c.receiving, c.expired, Len(d.batch),
                                    c.max_batch_size)
    IN  [c |-> [c EXCEPT !.batch = d.batch,
                         !.pc = IF again THEN "inner" ELSE "done",
                         !.outcome = IF again THEN "none" ELSE "returned"],
         q |-> d.q]

\* ReceiveClient.close: the receiver link, then AMQPClient.close, then the
\* three resets.  The queue is left as it is.
RecvCloseEffect ==
    /\ message_receiver' = "None"
    /\ BaseClose(IF message_receiver /= "None"
                 THEN [destroys EXCEPT !.link = Inc(@)] ELSE destroys)
    /\ shutdown' = FALSE
    /\ last_activity_timestamp' = -1
    /\ was_message_received' = FALSE

\* A ReceiveClient of either kind of auth, not opened yet.
RecvInit ==
    /\ CbsIdle /\ MgmtIdle /\ ConnIdle /\ TokIdle /\ SendIdle
    /\ msg_timeout = 0
    /\ now = 0
    /\ kind = "Receive"
    /\ auth_cbs \in BOOLEAN
    /\ ext_auth_cbs = FALSE /\ ext_cbs = FALSE
    /\ session = "None" /\ connection = "None" /\ ext_connection = FALSE
    /\ own_cbs = FALSE /\ shutdown = FALSE /\ destroys = NoDestroys
    /\ peer_session = "None"
    /\ prefetch \in 1..MaxPrefetch
    /\ recv_timeout \in {0, ClockStep}
    /\ message_receiver = "None"
    /\ last_activity_timestamp = -1
    /\ was_message_received = FALSE
    /\ received_messages = QueueNone
    /\ delivered = 0
    /\ last_arrival = NoArrival
    /\ rc = NoRecvCall

RecvOthers == <<cbsVars, mgmtVars, connVars, tokVars, sendVars, kind, ext_auth_cbs, prefetch,
                recv_timeout, peer_session>>

RecvIsIdle == kind = "Receive" /\ rc.pc = "idle"

\* open() called by the user
RecvOpen ==
    /\ RecvIsIdle
    /\ BaseOpen("None")
    /\ UNCHANGED <<RecvOthers, now, shutdown, message_receiver,
                   last_activity_timestamp, was_message_received,
                   received_messages, delivered, rc>>
    /\ NoteArrival

\* close() called by the user
RecvClose ==
    /\ RecvIsIdle
    /\ RecvCloseEffect
    /\ UNCHANGED <<RecvOthers, now, auth_cbs, received_messages, delivered,
                   rc>>
    /\ NoteArrival

\* do_work() called by the user on an open client
RecvUserDoWork ==
    /\ RecvIsIdle
    /\ session /= "None"
    /\ \E y \in RecvDoWork(RecvState, now, recv_timeout) : RecvAssign(y)
    /\ UNCHANGED <<RecvOthers, now, auth_cbs, session, connection,
                   ext_connection, own_cbs, ext_cbs, destroys, rc>>
    /\ NoteArrival

\* receive_message_batch(max_batch_size, timeout=t), up to its loops;
\* n = 0 stands for max_batch_size=None.
RecvBatchStart ==
    /\ RecvIsIdle
    /\ \E n \in 0..(MaxPrefetch + 1), t \in {0, ClockStep} :
          LET size == IF n = 0 THEN prefetch ELSE n
              c0 == [NoRecvCall EXCEPT !.op = "receive_message_batch",
                                       !.max_batch_size = size]
          IN  IF BatchTooLarge(size, prefetch)
              THEN /\ rc' = [c0 EXCEPT !.pc = "done", !.outcome = "ValueError"]
                   /\ UNCHANGED <<auth_cbs, session, connection,
                                  ext_connection, own_cbs, ext_cbs, destroys,
                                  received_messages>>
              ELSE LET q0 == IF received_messages = QueueNone THEN <<>>
                             ELSE received_messages
                       d == Drain(<<>>, q0, size)
                       full == Len(d.batch) >= size
                   IN  /\ BaseOpen("None")
                       /\ received_messages' = d.q
                       /\ rc' = [c0 EXCEPT
                                   !.deadline = IF t > 0 THEN now + t ELSE 0,
                                   !.opened = TRUE,
                                   !.batch = d.batch,
                                   !.pc = IF full THEN "done" ELSE "inner",
                                   !.outcome = IF full THEN "returned"
                                               ELSE "none"]
    /\ UNCHANGED <<RecvOthers, now, shutdown, message_receiver,
                   last_activity_timestamp, was_message_received, delivered>>
    /\ NoteArrival

\* One turn of the inner loop of receive_message_batch: its condition, and
\* the deadline test, one do_work() and the stall test, or the way out.
RecvLoopIter ==
    /\ kind = "Receive" /\ rc.pc = "inner"
    /\ IF rc.receiving /\ Len(received_messages) < rc.max_batch_size
       THEN IF DeadlinePassed(now, rc.deadline)
            THEN LET r == RecvAfterInner([rc EXCEPT !.expired = TRUE],
                                         received_messages)
                 IN  /\ rc' = r.c
                     /\ received_messages' = r.q
                     /\ UNCHANGED <<shutdown, message_receiver, delivered,
                                    last_activity_timestamp,
                                    was_message_received>>
            ELSE \E y \in RecvDoWork(RecvState, now, recv_timeout) :
                    LET received == Len(y.q) - Len(received_messages)
                        c1 == [rc EXCEPT !.ticked = TRUE,
                                         !.added = received,
                                         !.receiving = (y.out = "True")]
                    IN  IF y.out \notin {"True", "False"}
                        THEN /\ RecvAssign(y)
                             /\ rc' = [rc EXCEPT !.ticked = TRUE,
                                                 !.pc = "done",
                                                 !.outcome = y.out]
                        ELSE IF Stalled(Len(y.q), received)
                        THEN LET r == RecvAfterInner(
                                        [c1 EXCEPT !.expired = TRUE,
                                                   !.stalled = TRUE,
                                                   !.had = Len(rc.batch)
                                                           + Len(y.q)],
                                        y.q)
                             IN  /\ RecvAssign([y EXCEPT !.q = r.q])
                                 /\ rc' = r.c
                        ELSE /\ RecvAssign(y)
                             /\ rc' = c1
       ELSE LET r == RecvAfterInner(rc, received_messages)
            IN  /\ rc' = r.c
                /\ received_messages' = r.q
                /\ UNCHANGED <<shutdown, message_receiver, delivered,
                               last_activity_timestamp, was_message_received>>
    /\ UNCHANGED <<RecvOthers, now, auth_cbs, session, connection,
                   ext_connection, own_cbs, ext_cbs, destroys>>
    /\ NoteArrival

\* The call has returned or raised: the caller goes on.
RecvReturn ==
    /\ kind = "Receive" /\ rc.pc = "done"
    /\ rc' = NoRecvCall
    /\ UNCHANGED <<RecvOthers, now, baseVars, message_receiver,
                   last_activity_timestamp, was_message_received,
                   received_messages, delivered>>
    /\ NoteArrival

\* The iterator taking the newest message of the queue instead of the
\* oldest.
QueueGetNewest(q) ==
    [message |-> q[Len(q)], q |-> SubSeq(q, 1, Len(q) - 1)]

\* message = self._received_messages.get(): the queue is first in, first out
QueueGet(q) == [message |-> Head(q), q |-> Tail(q)]

\* receive_messages_iter() and the first pull of the generator up to its
\* open(): a new queue, the client opened.  rc.batch keeps the messages
\* yielded so far and rc.had the number delivered before the call.
RecvIterStart ==
    /\ RecvIsIdle
    /\ received_messages' = <<>>
    /\ rc' = [NoRecvCall EXCEPT !.op = "receive_messages_iter",
                                !.pc = "iter", !.opened = TRUE,
                                !.had = delivered]
    /\ BaseOpen("None")
    /\ UNCHANGED <<RecvOthers, now, shutdown, message_receiver,
                   last_activity_timestamp, was_message_received, delivered>>
    /\ NoteArrival

\* One step of _message_generator with a consumer that keeps pulling: a
\* do_work while the queue is empty and the client is receiving, one
\* message yielded while the queue is not empty, and the end of the
\* sequence otherwise; the finally clause closes the client at the end and
\* when do_work raises.
RecvIterStep ==
    /\ kind = "Receive" /\ rc.pc = "iter"
    /\ IF rc.receiving /\ received_messages = <<>>
       THEN \E y \in RecvDoWork(RecvState, now, recv_timeout) :
               IF y.out \notin {"True", "False"}
               THEN /\ rc' = [rc EXCEPT !.ticked = TRUE, !.pc = "done",
                                        !.outcome = y.out]
                    /\ RecvCloseEffect
                    /\ delivered' = y.delivered
                    /\ received_messages' = y.q
               ELSE /\ rc' = [rc EXCEPT !.ticked = TRUE,
                                        !.receiving = (y.out = "True")]
                    /\ RecvAssign(y)
                    /\ UNCHANGED <<session, connection, ext_connection,
                                   own_cbs, ext_cbs, destroys>>
       ELSE IF received_messages /= <<>>
       THEN LET g == QueueGet(received_messages)
            IN  /\ rc' = [rc EXCEPT !.batch = Append(@, g.message)]
                /\ received_messages' = g.q
                /\ UNCHANGED <<shutdown, message_receiver, delivered,
                               last_activity_timestamp, was_message_received,
                               session, connection, ext_connection, own_cbs,
                               ext_cbs, destroys>>
       ELSE /\ rc' = [rc EXCEPT !.pc = "done", !.outcome = "StopIteration"]
            /\ RecvCloseEffect
            /\ UNCHANGED <<delivered, received_messages>>
    /\ UNCHANGED <<RecvOthers, now, auth_cbs>>
    /\ NoteArrival

RecvNext ==
    \/ RecvOpen \/ RecvClose \/ RecvUserDoWork \/ RecvBatchStart
    \/ RecvLoopIter \/ RecvReturn \/ RecvIterStart \/ RecvIterStep
    \/ ClockTick

SpecRecv == RecvInit /\ [][RecvNext]_vars

(***************************************************************************)
(* C2: receive_message_batch(max_batch_size = N) never returns more than N *)
(* messages, whatever the queue held at the start of the call and however  *)
(* many messages each tick delivered.                                      *)
(***************************************************************************)
C2_BatchWithinMax ==
    (kind = "Receive" /\ rc.pc = "done" /\ rc.outcome = "returned") =>
        /\ rc.max_batch_size <= prefetch
        /\ Len(rc.batch) <= rc.max_batch_size

\* A tick delivered more than N at once: the batch is full and the rest is
\* still queued.
C2_Witness ==
    /\ kind = "Receive" /\ rc.pc = "done" /\ rc.outcome = "returned"
    /\ rc.ticked
    /\ rc.max_batch_size < prefetch
    /\ Len(rc.batch) = rc.max_batch_size
    /\ rc.added > rc.max_batch_size
    /\ Len(received_messages) > 0

(***************************************************************************)
(* C3: receive_message_batch with max_batch_size greater than the prefetch *)
(* raises ValueError at once: the call makes no open() and no do_work, so  *)
(* no connection tick.                                                     *)
(***************************************************************************)
C3_ValidationFirst ==
    /\ (kind = "Receive" /\ rc.pc /= "idle"
           /\ rc.max_batch_size > prefetch) =>
          /\ rc.pc = "done" /\ rc.outcome = "ValueError"
          /\ ~rc.opened /\ ~rc.ticked
          /\ rc.batch = <<>>
    /\ (kind = "Receive" /\ rc.outcome = "ValueError") =>
          rc.max_batch_size > prefetch

C3_Witness ==
    /\ kind = "Receive" /\ rc.pc = "done" /\ rc.outcome = "ValueError"
    /\ rc.max_batch_size = prefetch + 1
    /\ session = "None" /\ message_receiver = "None" /\ delivered = 0

(***************************************************************************)
(* C9 as stated: when a do_work of receive_message_batch leaves the queue  *)
(* non-empty and added nothing to it, the call stops ticking and returns   *)
(* the messages it has, a batch shorter than max_batch_size.               *)
(***************************************************************************)
C9_StallReturnsShortBatch ==
    /\ (kind = "Receive" /\ rc.pc = "inner" /\ rc.added = 0) =>
          Len(received_messages) = 0
    /\ (kind = "Receive" /\ rc.stalled) =>
          /\ rc.pc = "done" /\ rc.outcome = "returned"
          /\ Len(rc.batch) = rc.had
          /\ Len(rc.batch) < rc.max_batch_size

(***************************************************************************)
(* C9 amended: when a do_work of receive_message_batch leaves the queue    *)
(* non-empty and added nothing to it, the call stops ticking and returns a *)
(* non-empty batch: the messages it has, up to max_batch_size of them.     *)
(* The batch is full when the messages taken from the queue at the start   *)
(* of the call and those queued since add up to max_batch_size.            *)
(***************************************************************************)
C9_StallReturnsBatch ==
    /\ (kind = "Receive" /\ rc.pc = "inner" /\ rc.added = 0) =>
          Len(received_messages) = 0
    /\ (kind = "Receive" /\ rc.stalled) =>
          /\ rc.pc = "done" /\ rc.outcome = "returned"
          /\ Len(rc.batch) = Min(rc.max_batch_size, rc.had)
          /\ Len(rc.batch) >= 1

\* The stall rule fires in a call with timeout=0 and the batch is full.
C9_Witness ==
    /\ kind = "Receive" /\ rc.stalled /\ rc.pc = "done"
    /\ rc.deadline = 0
    /\ rc.added = 0
    /\ Len(rc.batch) = rc.max_batch_size

(***************************************************************************)
(* C36: in a receive_message_batch call with timeout=0 that took k >= 1    *)
(* messages from the queue at its start, fewer than max_batch_size, a      *)
(* do_work that returns True and delivers no message ends the call, which  *)
(* returns those k messages.                                               *)
(***************************************************************************)
C36_HeldMessagesReturned ==
    [][(/\ kind = "Receive" /\ rc.pc = "inner" /\ rc.deadline = 0
        /\ Len(rc.batch) >= 1 /\ Len(received_messages) = 0
        /\ message_receiver = "Open" /\ message_receiver' = "Open"
        /\ rc'.ticked /\ rc'.receiving /\ rc'.outcome \in {"none", "returned"}
        /\ delivered' = delivered) =>
          /\ rc'.pc = "done" /\ rc'.outcome = "returned"
          /\ rc'.batch = rc.batch]_vars

LifeInit ==
    /\ CbsIdle /\ MgmtIdle /\ ConnIdle /\ TokIdle /\ SendIdle /\ RecvIdle
    /\ msg_timeout = 0
    /\ now = 0
    /\ kind \in {"Send", "Receive"}
    /\ auth_cbs \in BOOLEAN
    /\ ext_auth_cbs \in BOOLEAN
    /\ ext_cbs \in BOOLEAN
    /\ session = "None" /\ connection = "None" /\ ext_connection = FALSE
    /\ own_cbs = FALSE /\ shutdown = FALSE /\ destroys = NoDestroys
    /\ peer_session = "None"

LifeConfig == <<cbsVars, mgmtVars, connVars, tokVars, kind, ext_auth_cbs, msg_timeout, prefetch,
                recv_timeout, peer_session, last_arrival>>

LifeOthers == <<LifeConfig, run>>

\* open() or open(connection)
LifeOpen ==
    /\ \E conn \in {"None", "Ext"} : BaseOpen(conn)
    /\ sc' = NoSendCall /\ rc' = NoRecvCall
    /\ UNCHANGED <<LifeOthers, now, shutdown, message_sender, pending,
                   msg_state, idle_time, inflight, message_receiver,
                   last_activity_timestamp, was_message_received,
                   received_messages, delivered>>

\* What the call record of a close() that found the client open says of the
\* Connection: the client's own, injected, or injected and in use by the
\* second client at that moment.
CloseKind ==
    IF connection /= "Ext" THEN "Closed"
    ELSE IF peer_session = "None" THEN "ClosedInjected"
    ELSE "ClosedShared"

\* close() of the class of the client; the call record keeps whether the
\* client was closed already, whether it held an injected Connection, and
\* the pending list it found.
LifeClose ==
    /\ IF kind = "Send"
       THEN /\ SendCloseEffect
            /\ sc' = [NoSendCall EXCEPT
                        !.op = "close", !.snapshot = pending,
                        !.outcome = IF AlreadyClosed(session)
                                    THEN "AlreadyClosed"
                                    ELSE CloseKind]
            /\ UNCHANGED <<shutdown, message_receiver, rc,
                           last_activity_timestamp, was_message_received>>
       ELSE /\ RecvCloseEffect
            /\ rc' = [NoRecvCall EXCEPT
                        !.op = "close",
                        !.outcome = IF AlreadyClosed(session)
                                    THEN "AlreadyClosed"
                                    ELSE CloseKind]
            /\ UNCHANGED <<message_sender, pending, msg_state, inflight, sc>>
    /\ UNCHANGED <<LifeOthers, now, auth_cbs, idle_time, received_messages,
                   delivered>>

\* queue_message(message) on a SendClient, open or not
LifeQueueMessage ==
    /\ kind = "Send"
    /\ Fresh /= {}
    /\ LET m == CHOOSE x \in FirstFresh(1) : TRUE
       IN  /\ idle_time' = [idle_time EXCEPT ![m] = now]
           /\ msg_state' = [msg_state EXCEPT ![m] = "WaitingToBeSent"]
           /\ pending' = Append(pending, m)
    /\ sc' = NoSendCall
    /\ UNCHANGED <<LifeOthers, now, baseVars, message_sender, inflight,
                   message_receiver, last_activity_timestamp,
                   was_message_received, received_messages, delivered, rc>>

\* do_work() on an open client; the call record keeps an
\* AMQPConnectionError it raised.
LifeDoWork ==
    /\ session /= "None"
    /\ IF kind = "Send"
       THEN /\ \E out \in DoWorkOutcomes :
                  /\ SendDoWork(out)
                  /\ sc' = IF out = "AMQPConnectionError"
                           THEN [NoSendCall EXCEPT !.op = "do_work",
                                                   !.outcome = out]
                           ELSE NoSendCall
            /\ UNCHANGED <<shutdown, message_receiver, delivered, rc,
                           last_activity_timestamp, was_message_received,
                           received_messages>>
       ELSE /\ \E y \in RecvDoWork(RecvState, now, recv_timeout) :
                  /\ RecvAssign(y)
                  /\ rc' = IF y.out = "AMQPConnectionError"
                           THEN [NoRecvCall EXCEPT !.op = "do_work",
                                                   !.outcome = y.out]
                           ELSE NoRecvCall
            /\ UNCHANGED <<message_sender, pending, msg_state, inflight, sc,
                           run>>
    /\ UNCHANGED <<LifeConfig, now, auth_cbs, session, connection,
                   ext_connection, own_cbs, ext_cbs, destroys, idle_time>>

LifeNext ==
    \/ LifeOpen \/ LifeClose \/ LifeQueueMessage \/ LifeDoWork
    \/ ClockTick

SpecLife == LifeInit /\ [][LifeNext]_vars

(***************************************************************************)
(* Two clients on one injected Connection.  The second client is opened    *)
(* with open(connection) only, so its _ext_connection is True and its      *)
(* _auth is the auth of that Connection.                                   *)
(***************************************************************************)
\* open(connection) of the second client
PeerOpen ==
    /\ peer_session = "None"
    /\ peer_session' = IF ext_cbs \/ ext_auth_cbs THEN "CbsSession"
                       ELSE "Session"
    /\ ext_cbs' = (ext_cbs \/ ext_auth_cbs)
    /\ UNCHANGED <<cbsVars, now, mgmtVars, connVars, tokVars, sendVars, recvVars, kind, auth_cbs,
                   session, connection, ext_connection, own_cbs, ext_auth_cbs,
                   shutdown, destroys>>

\* close() of the second client; the destroy calls it issues on the shared
\* Connection and its authenticator are counted.
PeerClose ==
    /\ ~AlreadyClosed(peer_session)
    /\ LET closeCbs == ClosesCbs(ext_cbs, TRUE)
           d1 == IF closeCbs
                 THEN [destroys EXCEPT !.cbs_auth = Inc(@)]
                 ELSE destroys
           d2 == IF OwnsConnection(TRUE)
                 THEN [d1 EXCEPT !.ext_conn = Inc(@)]
                 ELSE d1
       IN  /\ ext_cbs' = IF closeCbs THEN FALSE ELSE ext_cbs
           /\ destroys' = d2
    /\ peer_session' = "None"
    /\ UNCHANGED <<cbsVars, now, mgmtVars, connVars, tokVars, sendVars, recvVars, kind, auth_cbs,
                   session, connection, ext_connection, own_cbs, ext_auth_cbs,
                   shutdown>>

\* What mgmt_request returns or raises.  Its authentication loop reads
\* self._connection.cbs first, and self._connection is None on a client that
\* is not open: the attribute read fails.  On an open client the loop ends
\* with an exception of handle_token, with TimeoutError, or goes on to the
\* session test and to Session.mgmt_request.
MgmtRequestOutcomes(conn, cbs, sess) ==
    IF conn = "None" THEN {"AttributeError"}
    ELSE LET after == IF sess = "None" THEN "ValueError" ELSE "response"
             hs == IF cbs
                   THEN {HandleToken(st, r, MaxRetries, c, 0) :
                            st \in CBSAuthStatus, r \in {0, MaxRetries},
                            c \in BOOLEAN}
                   ELSE {NoCbs(0, 0)}
         IN  {IF h.exc /= "None" THEN h.exc
              ELSE IF h.timeout THEN "TimeoutError"
              ELSE after : h \in {x \in hs : ~x.in_progress \/ x.exc /= "None"}}

\* mgmt_request(message, operation) on a client, open or not; the call
\* record keeps what it returned or raised.
LifeMgmtRequest ==
    /\ \E out \in MgmtRequestOutcomes(connection, ConnCbs, session) :
          IF kind = "Send"
          THEN /\ sc' = [NoSendCall EXCEPT !.op = "mgmt_request",
                                           !.outcome = out]
               /\ UNCHANGED rc
          ELSE /\ rc' = [NoRecvCall EXCEPT !.op = "mgmt_request",
                                           !.outcome = out]
               /\ UNCHANGED sc
    /\ UNCHANGED <<cbsVars, now, mgmtVars, connVars, tokVars, baseVars, msg_timeout,
                   message_sender, pending, msg_state, idle_time, inflight, run,
                   prefetch, recv_timeout, message_receiver,
                   last_activity_timestamp, was_message_received,
                   received_messages, delivered, last_arrival>>

ShareNext ==
    LifeOpen \/ LifeClose \/ PeerOpen \/ PeerClose \/ LifeMgmtRequest

SpecShare == LifeInit /\ [][ShareNext]_vars

\* The fields of the client other than the pending list.
LifeFields ==
    <<baseVars, msg_timeout, message_sender, msg_state, idle_time, inflight,
      prefetch, recv_timeout, message_receiver, last_activity_timestamp,
      was_message_received, received_messages, delivered>>

(***************************************************************************)
(* AMQPClientAsync.open_async and close_async.  close_async is close with  *)
(* every destroy awaited; the destroy calls it issues are listed in the    *)
(* order of the code.                                                      *)
(***************************************************************************)
\* close_authenticator(): self._cbs_auth.destroy(), self._session.destroy()
CloseAuthenticatorCalls == <<"cbs_auth", "session">>

\* close_authenticator_async(): close_authenticator in the executor, then
\* await self._session.destroy_async()
CloseAuthenticatorAsyncCalls == CloseAuthenticatorCalls \o <<"session">>

\* The destroy calls of one close_async() on an open client, in order.
CloseAsyncCalls(cbs, ext, conn) ==
    (IF ClosesCbs(cbs, ext) THEN CloseAuthenticatorAsyncCalls
     ELSE IF ~cbs THEN <<"session">>
     ELSE <<>>)
    \o (IF OwnsConnection(ext)
        THEN <<IF conn = "Ext" THEN "ext_conn" ELSE "conn">>
        ELSE <<>>)

\* How often destroy is called on object o in calls
Calls(calls, o) == Cardinality({i \in DOMAIN calls : calls[i] = o})

\* open_async() or open_async(connection)
AsyncClientOpen ==
    /\ \E conn \in {"None", "Ext"} : BaseOpen(conn)
    /\ UNCHANGED <<LifeOthers, now, shutdown, message_sender, pending,
                   msg_state, idle_time, inflight, message_receiver,
                   last_activity_timestamp, was_message_received,
                   received_messages, delivered, sc, rc>>

\* close_async()
AsyncClientClose ==
    /\ IF AlreadyClosed(session)
       THEN UNCHANGED <<session, connection, own_cbs, ext_cbs, destroys>>
       ELSE LET closeCbs == ClosesCbs(ConnCbs, ext_connection)
                calls == CloseAsyncCalls(ConnCbs, ext_connection, connection)
            IN  /\ own_cbs' = IF closeCbs /\ connection = "Own" THEN FALSE
                              ELSE own_cbs
                /\ ext_cbs' = IF closeCbs /\ connection = "Ext" THEN FALSE
                              ELSE ext_cbs
                /\ session' = "None"
                /\ connection' = "None"
                /\ destroys' = [o \in DOMAIN destroys |->
                                   destroys[o] + Calls(calls, o)]
    /\ UNCHANGED <<LifeOthers, now, auth_cbs, ext_connection, shutdown,
                   message_sender, pending, msg_state, idle_time, inflight,
                   message_receiver, last_activity_timestamp,
                   was_message_received, received_messages, delivered, sc, rc>>

\* The asynchronous client, and a second client on the injected Connection.
CloseAsyncNext ==
    AsyncClientOpen \/ AsyncClientClose \/ PeerOpen \/ PeerClose

SpecCloseAsync == LifeInit /\ [][CloseAsyncNext]_vars

(***************************************************************************)
(* C35: a close of a client that owns its Connection and the CBS           *)
(* authenticator destroys the authenticator before the Connection, and no  *)
(* session or authenticator is destroyed twice in one close; here for      *)
(* close_async.                                                            *)
(***************************************************************************)
C35_CloseAsyncDestroysOnce ==
    [][(AsyncClientClose /\ session /= "None") =>
          LET calls == CloseAsyncCalls(ConnCbs, ext_connection, connection)
          IN  /\ Calls(calls, "session") <= 1
              /\ Calls(calls, "cbs_auth") <= 1
              /\ destroys'.session <= 1 /\ destroys'.cbs_auth <= 1
              /\ \A i, j \in DOMAIN calls :
                    (calls[i] = "cbs_auth" /\ calls[j] = "conn") => i < j]_vars

(***************************************************************************)
(* C10 as stated: close() on a client that is closed already issues no     *)
(* destroy call and leaves every field of the client as it was; the        *)
(* Connection the client owns is destroyed at most once per open, and an   *)
(* injected one never.                                                     *)
(***************************************************************************)
C10_CloseWhenClosedIsNoOp ==
    /\ [](destroys.conn <= 1 /\ destroys.ext_conn = 0)
    /\ [][(LifeClose /\ session = "None") =>
             UNCHANGED <<LifeFields, pending>>]_vars

(***************************************************************************)
(* C10 amended: close() on a client that is closed already issues no       *)
(* destroy call and leaves every field of the client as it was, except     *)
(* that a SendClient empties its list of pending messages; the Connection  *)
(* the client owns is destroyed at most once per open, and an injected one *)
(* never.                                                                  *)
(***************************************************************************)
C10_CloseWhenClosed ==
    /\ [](destroys.conn <= 1 /\ destroys.ext_conn = 0)
    /\ [][(LifeClose /\ session = "None") =>
             /\ UNCHANGED LifeFields
             /\ pending' = <<>>]_vars

\* A second close after an open and a close, on a SendClient that had a
\* message queued in between.
C10_Witness ==
    /\ kind = "Send" /\ sc.op = "close" /\ sc.outcome = "AlreadyClosed"
    /\ sc.snapshot /= <<>> /\ pending = <<>>
    /\ session = "None" /\ destroys.conn = 1

(***************************************************************************)
(* C38: a close() of an open client that holds a Connection it created in  *)
(* its own open() destroys that Connection, whatever the client did        *)
(* before, also when it had been opened on an injected Connection and      *)
(* closed earlier.                                                         *)
(***************************************************************************)
C38_OwnConnectionDestroyed ==
    [][(LifeClose /\ session /= "None" /\ connection = "Own") =>
          destroys'.conn = 1]_vars

(***************************************************************************)
(* C13: a do_work call that reaches the readiness check while the sender   *)
(* or receiver link is in state Error raises AMQPConnectionError: it hands *)
(* no message to the link, does not tick the connection and changes no     *)
(* field of the client.  A client without CBS that is not shutting down    *)
(* reaches the readiness check in every do_work.                           *)
(***************************************************************************)
C13_LinkErrorIsFatal ==
    [][((IF kind = "Send" THEN message_sender ELSE message_receiver)
                = "Error"
          /\ ~ConnCbs /\ ~shutdown /\ LifeDoWork) =>
          /\ (IF kind = "Send" THEN sc' ELSE rc').outcome
                = "AMQPConnectionError"
          /\ UNCHANGED <<LifeFields, pending>>]_vars

\* The link of a SendClient went from Open to Error with messages in
\* flight, and the next do_work raised.
C13_Witness ==
    /\ kind = "Send" /\ sc.op = "do_work"
    /\ sc.outcome = "AMQPConnectionError"
    /\ message_sender = "Error" /\ ~ConnCbs /\ ~shutdown
    /\ inflight /= {}

(***************************************************************************)
(* C16: a client opened on an injected Connection never destroys that      *)
(* Connection, and its close() neither closes the CBS authenticator nor    *)
(* clears the cbs reference of that Connection.                            *)
(***************************************************************************)
C16_InjectedConnectionKept ==
    /\ [](destroys.ext_conn = 0)
    /\ [][(LifeClose /\ connection = "Ext") =>
            /\ ext_cbs' = ext_cbs
            /\ destroys'.ext_conn = destroys.ext_conn
            /\ destroys'.cbs_auth = destroys.cbs_auth]_vars

\* A client has closed after running on an injected Connection with CBS;
\* the Connection still has its authenticator.
C16_Witness ==
    /\ (IF kind = "Send" THEN sc ELSE rc).op = "close"
    /\ (IF kind = "Send" THEN sc ELSE rc).outcome
          \in {"ClosedInjected", "ClosedShared"}
    /\ session = "None" /\ ext_cbs

(***************************************************************************)
(* C17: with two clients on one Connection that has a CBS authenticator,   *)
(* the close of one of them while the other is open on the CBS session     *)
(* leaves the authenticator on the Connection and issues no destroy on the *)
(* authenticator or its session; so an open client on the CBS session      *)
(* always finds the authenticator on the Connection.                       *)
(***************************************************************************)
C17_SharedCbsKept ==
    /\ [](peer_session = "CbsSession" => ext_cbs)
    /\ []((connection = "Ext" /\ session = "CbsSession") => ext_cbs)
    /\ [][(\/ LifeClose /\ connection = "Ext" /\ session = "CbsSession"
                /\ peer_session = "CbsSession"
           \/ PeerClose /\ peer_session = "CbsSession"
                /\ connection = "Ext" /\ session = "CbsSession") =>
            /\ ext_cbs' /\ destroys'.cbs_auth = destroys.cbs_auth
            /\ destroys'.session = destroys.session
            /\ destroys'.ext_conn = destroys.ext_conn]_vars

\* One of two clients on the CBS session of the injected Connection has
\* closed while the other was open, and the other is still open.
C17_Witness ==
    /\ (IF kind = "Send" THEN sc ELSE rc).op = "close"
    /\ (IF kind = "Send" THEN sc ELSE rc).outcome = "ClosedShared"
    /\ session = "None" /\ peer_session = "CbsSession" /\ ext_cbs

(***************************************************************************)
(* C19: close() of a ReceiveClient resets the queue of received messages:  *)
(* a receive_message_batch call made on a closed client, which opens it    *)
(* again, takes no message from the queue before its first do_work, every  *)
(* message there having been delivered before the close.                   *)
(***************************************************************************)
C19_CloseResetsQueue ==
    [][(RecvBatchStart /\ session = "None") => rc'.batch = <<>>]_vars

(***************************************************************************)
(* C20: mgmt_request on a client whose session is not open, because it was *)
(* never opened or has been closed, raises ValueError ('Session not yet    *)
(* open') and no other error.                                              *)
(***************************************************************************)
C20_NoSessionIsValueError ==
    ((IF kind = "Send" THEN sc ELSE rc).op = "mgmt_request"
        /\ session = "None") =>
        (IF kind = "Send" THEN sc ELSE rc).outcome = "ValueError"

(***************************************************************************)
(* C22 as stated: a receive_message_batch call with a timeout T > 0 never  *)
(* raises TimeoutError.                                                    *)
(***************************************************************************)
C22_NeverTimeoutError ==
    (kind = "Receive" /\ rc.op = "receive_message_batch" /\ rc.deadline > 0)
        => rc.outcome /= "TimeoutError"

(***************************************************************************)
(* C22: the deadline of receive_message_batch (call start + T, computed    *)
(* once) never makes the call raise: the loop turn that finds the clock    *)
(* past the deadline starts no tick and returns the messages collected so  *)
(* far, the queued ones included up to the batch size.  A TimeoutError     *)
(* leaves the call only from a do_work on a connection with CBS, in a turn *)
(* that did not find the deadline passed.  With timeout = 0 the deadline   *)
(* is 0 and the call is only ever marked expired by the stall rule.        *)
(***************************************************************************)
C22_DeadlineReturnsBatch ==
    /\ [][(rc.pc = "inner" /\ rc.receiving
             /\ Len(received_messages) < rc.max_batch_size
             /\ rc.deadline > 0 /\ now > rc.deadline /\ RecvLoopIter) =>
            /\ rc'.pc = "done" /\ rc'.outcome = "returned"
            /\ LET all == rc.batch \o received_messages
               IN  rc'.batch =
                      SubSeq(all, 1, Min(Len(all), rc.max_batch_size))
            /\ rc'.ticked = rc.ticked
            /\ UNCHANGED <<delivered, message_receiver, shutdown>>]_vars
    /\ [][(rc.pc = "inner" /\ rc'.outcome = "TimeoutError") =>
            /\ ConnCbs
            /\ rc.deadline = 0 \/ now <= rc.deadline]_vars
    /\ []((kind = "Receive" /\ rc.deadline = 0 /\ rc.expired) => rc.stalled)

\* A call with a deadline found the clock past it after at least one tick
\* and returned, here with an empty list.
C22_Witness ==
    /\ kind = "Receive" /\ rc.op = "receive_message_batch"
    /\ rc.pc = "done" /\ rc.outcome = "returned"
    /\ rc.deadline > 0 /\ now > rc.deadline
    /\ rc.expired /\ ~rc.stalled /\ rc.ticked /\ rc.batch = <<>>

(***************************************************************************)
(* C23: in iterator mode the messages yielded so far followed by those     *)
(* still queued are the messages delivered since the iterator was made, in *)
(* arrival order and each once; the sequence ends only after do_work has   *)
(* returned False, with the queue empty, every delivered message yielded   *)
(* and the client closed.                                                  *)
(***************************************************************************)
C23_IteratorYieldsAll ==
    (kind = "Receive" /\ rc.op = "receive_messages_iter") =>
        /\ rc.batch \o received_messages
              = [i \in 1..(delivered - rc.had) |-> rc.had + i]
        /\ rc.outcome = "StopIteration" =>
              /\ ~rc.receiving /\ received_messages = <<>>
              /\ Len(rc.batch) = delivered - rc.had
              /\ session = "None" /\ message_receiver = "None"

\* The sequence has ended after at least two messages were yielded, on a
\* client that had been delivered messages before the iterator was made.
C23_Witness ==
    /\ kind = "Receive" /\ rc.op = "receive_messages_iter"
    /\ rc.pc = "done" /\ rc.outcome = "StopIteration"
    /\ Len(rc.batch) >= 2 /\ rc.had > 0

(***************************************************************************)
(* C24 as stated: a ReceiveClient sets its shutdown flag only in a run     *)
(* step (link Open, timeout T > 0) whose tick delivered no message and at  *)
(* which T ms or more have passed since the last tick that delivered a     *)
(* message and since the link opened; with T = 0 the flag is never set.    *)
(***************************************************************************)
C24_ShutdownOnlyWhenIdle ==
    [][(~shutdown /\ shutdown') =>
          /\ recv_timeout > 0
          /\ message_receiver = "Open"
          /\ delivered' = delivered
          /\ last_arrival.message >= 0 =>
                now - last_arrival.message >= recv_timeout
          /\ last_arrival.link >= 0
          /\ now - last_arrival.link >= recv_timeout]_vars

(***************************************************************************)
(* C24: a ReceiveClient sets its shutdown flag only in a run step (link    *)
(* Open, timeout T > 0) whose tick delivered no message, with no message   *)
(* delivered since the run step before, and at which T ms or more have     *)
(* passed since the last tick that delivered a message and since the       *)
(* activity time the client last recorded: that of the last readiness      *)
(* check that found the link not Open, or of a later run step that         *)
(* restarted the idle period.  With T = 0 the flag is never set.           *)
(***************************************************************************)
C24_ShutdownAfterIdlePeriod ==
    [][(~shutdown /\ shutdown') =>
          /\ recv_timeout > 0
          /\ message_receiver = "Open"
          /\ delivered' = delivered /\ ~was_message_received
          /\ last_arrival.message >= 0 =>
                now - last_arrival.message >= recv_timeout
          /\ last_activity_timestamp > 0
          /\ now - last_activity_timestamp >= recv_timeout]_vars

\* The flag was set T ms after a message arrival that restarted the idle
\* period.
C24_Witness ==
    /\ kind = "Receive" /\ shutdown /\ recv_timeout > 0
    /\ delivered > 0 /\ last_arrival.message > 0
    /\ now - last_arrival.message = recv_timeout

(***************************************************************************)
(* C25: in a send run-step, a message of the pending list that is          *)
(* WaitingToBeSent and older than msg_timeout > 0 seconds gets no          *)
(* send_async call and is Failed when the step ends; one that is not older *)
(* than that, or any such message when msg_timeout = 0, gets a send_async  *)
(* call and has left WaitingToBeSent: it is WaitingForAck while the Sender *)
(* holds it.                                                               *)
(***************************************************************************)
\* The messages for which the step makes a send_async call.
HandedInStep ==
    {run'.log[i] : i \in (Len(run.log) + 1)..Len(run'.log)}

C25_TimeoutDecides ==
    [][(message_sender = "Open" /\ session /= "None"
        /\ SendClientRun("True")) =>
          \A m \in Range(pending) :
             msg_state[m] = "WaitingToBeSent" =>
                IF msg_timeout > 0
                   /\ now - idle_time[m] > msg_timeout * MsPerSec
                THEN /\ m \notin HandedInStep
                     /\ m \notin inflight'
                     /\ msg_state'[m] = "Failed"
                ELSE /\ m \in HandedInStep
                     /\ msg_state'[m] \in {"WaitingForAck", "Complete",
                                           "Failed"}
                     /\ m \in inflight' => msg_state'[m] = "WaitingForAck"]_vars

\* A run-step has failed one message for its age without handing it over,
\* and another message has been handed to the Sender.
C25_Witness ==
    /\ run.keep = "calls" /\ msg_timeout > 0
    /\ \E m, k \in Msgs :
          /\ msg_state[m] = "Failed" /\ m \notin Range(run.log)
          /\ k \in Range(run.log)

(***************************************************************************)
(* C39: with msg_timeout > 0 every send_async call of a run step is made   *)
(* with a timeout argument greater than 0 and at most msg_timeout: never   *)
(* with 0, which the Sender takes as 'does not expire'.                    *)
(***************************************************************************)
C39_BudgetPositive ==
    [][(message_sender = "Open" /\ session /= "None" /\ msg_timeout > 0
        /\ SendClientRun("True")) =>
          \A m \in HandedInStep :
             /\ SendBudget(now, idle_time[m], msg_timeout) > 0
             /\ SendBudget(now, idle_time[m], msg_timeout)
                   <= msg_timeout * MsPerSec]_vars

(***************************************************************************)
(* C27: the send_async calls of one SendClient are made in the order in    *)
(* which the messages were queued (message k is the k-th message queued):  *)
(* no message is handed to the Sender after one that was queued later, and *)
(* none is handed twice.                                                   *)
(***************************************************************************)
C27_HandedInQueueOrder ==
    \A i, j \in DOMAIN run.log : i < j => run.log[i] < run.log[j]

\* Two messages queued at different times have both been handed over.
C27_Witness ==
    \E i, j \in DOMAIN run.log :
        i < j /\ idle_time[run.log[i]] < idle_time[run.log[j]]

(***************************************************************************)
(* C28: after a send run-step the pending list holds exactly the messages  *)
(* it held before that were neither Complete nor Failed when the step      *)
(* began; and no step takes a message off the list unless the message is   *)
(* Complete or Failed or the step is a close().                            *)
(***************************************************************************)
C28_PruneOnlyTerminal ==
    /\ [][(message_sender = "Open" /\ session /= "None"
           /\ SendClientRun("True")) =>
             \A m \in Msgs :
                m \in Range(pending') <=>
                   /\ m \in Range(pending)
                   /\ msg_state[m] \notin {"Complete", "Failed"}]_vars
    /\ [][\A m \in Range(pending) :
             m \notin Range(pending') =>
                \/ msg_state[m] \in {"Complete", "Failed"}
                \/ pending' = <<>> /\ session' = "None"
                   /\ message_sender' = "None"]_vars

\* A settled message is off the list while a message handed over later is
\* still on it, and the client has not been closed since it was opened.
C28_Witness ==
    /\ run.keep = "calls" /\ session /= "None" /\ message_sender = "Open"
    /\ \E i, j \in DOMAIN run.log :
          /\ i < j
          /\ msg_state[run.log[i]] = "Complete"
          /\ run.log[i] \notin Range(pending)
          /\ run.log[j] \in Range(pending)
          /\ msg_state[run.log[j]] = "WaitingForAck"

(***************************************************************************)
(* C29 as stated: a do_work call makes at most one connection.work() call; *)
(* on the paths taken while authentication is in progress or while the     *)
(* sender link is not yet created or not yet Open it makes exactly one,    *)
(* returns True, and leaves the state of every message and the pending     *)
(* list unchanged.                                                         *)
(***************************************************************************)
C29_TickLeavesMessages ==
    [][(sc.pc = "idle" /\ session /= "None" /\ RunDoWork) =>
          /\ run'.ticks <= 1
          /\ run'.path \in {"auth", "create", "not_open"} =>
                /\ run'.ticks = 1 /\ run'.out = "True"
                /\ msg_state' = msg_state
                /\ pending' = pending]_vars

(***************************************************************************)
(* C29: a do_work call makes at most one connection.work() call.  On the   *)
(* paths taken while authentication is in progress or while the sender     *)
(* link is not Open, it makes exactly one and returns True, unless opening *)
(* a newly created link raises, which ends the call with no tick; it       *)
(* leaves the pending list unchanged and the state of every message the    *)
(* Sender does not hold unchanged.  A message the Sender holds may be      *)
(* settled by that tick, to Complete or Failed.                            *)
(***************************************************************************)
C29_TickLeavesPending ==
    [][(sc.pc = "idle" /\ session /= "None" /\ RunDoWork) =>
          /\ run'.ticks <= 1
          /\ run'.path \in {"auth", "create", "not_open"} =>
                /\ pending' = pending
                /\ \A m \in Msgs :
                      \/ msg_state'[m] = msg_state[m]
                      \/ m \in inflight /\ m \notin inflight'
                         /\ msg_state'[m] \in {"Complete", "Failed"}
                /\ IF run'.path = "create"
                      /\ run'.out = "AMQPConnectionError"
                   THEN run'.ticks = 0 /\ msg_state' = msg_state
                   ELSE run'.ticks = 1 /\ run'.out = "True"]_vars

\* A do_work has taken the path of an authentication in progress, with one
\* tick, on a client that has a message waiting to be sent.
C29_Witness ==
    /\ run.keep = "last" /\ run.path = "auth" /\ run.ticks = 1
    /\ run.out = "True"
    /\ \E m \in Range(pending) : msg_state[m] = "WaitingToBeSent"

(***************************************************************************)
(* C1: when send_all_messages returns, the list it returns has one entry   *)
(* for each message that was in the pending list when it was called, and   *)
(* every entry is Complete or Failed.                                      *)
(***************************************************************************)
C1_AllSettled ==
    (kind = "Send" /\ sc.op = "send_all_messages"
        /\ sc.pc \in {"finally", "done"} /\ sc.outcome = "returned") =>
        /\ Len(sc.results) = Len(sc.snapshot)
        /\ \A i \in DOMAIN sc.results :
              /\ sc.results[i] \in {"Complete", "Failed"}
              /\ sc.results[i] = msg_state[sc.snapshot[i]]

C1_Witness ==
    /\ kind = "Send" /\ sc.op = "send_all_messages"
    /\ sc.pc = "done" /\ sc.outcome = "returned"
    /\ Len(sc.snapshot) >= 2
    /\ \E i, j \in DOMAIN sc.results :
          sc.results[i] = "Complete" /\ sc.results[j] = "Failed"

(***************************************************************************)
(* C14: once send_message has returned or raised MessageSendFailed, every  *)
(* message of its batch is Complete or Failed, and it raised               *)
(* MessageSendFailed exactly when a message of the batch is Failed; the    *)
(* messages of the pending list outside the batch play no part.            *)
(***************************************************************************)
C14_BatchDecidesOutcome ==
    (kind = "Send" /\ sc.op = "send_message"
        /\ sc.pc \in {"finally", "done"}
        /\ sc.outcome \in {"returned", "MessageSendFailed"}) =>
        /\ \A m \in sc.batch : msg_state[m] \in {"Complete", "Failed"}
        /\ sc.outcome = "MessageSendFailed"
              <=> \E m \in sc.batch : msg_state[m] = "Failed"

\* send_message returned while a message queued earlier, not of its batch,
\* is still pending and unsettled, and another time after one had failed.
C14_Witness ==
    /\ kind = "Send" /\ sc.op = "send_message" /\ sc.pc = "done"
    /\ sc.outcome = "returned"
    /\ \E m \in Msgs \ sc.batch :
          \/ m \in Range(pending) /\ msg_state[m] = "WaitingForAck"
          \/ msg_state[m] = "Failed"

(***************************************************************************)
(* C18: close() of a SendClient, called by the user or by close_on_done,   *)
(* leaves the pending list empty, so messages_pending() is false; and a    *)
(* message that was queued and has left the pending list unsent is never   *)
(* put back nor handed to the Sender by any later call.                    *)
(***************************************************************************)
C18_CloseDiscardsPending ==
    /\ [][(SendClose \/ (SendFinally /\ sc.close_on_done)) =>
            pending' = <<>>]_vars
    /\ [][\A m \in Msgs :
            (msg_state[m] = "WaitingToBeSent" /\ m \notin Range(pending)) =>
                /\ msg_state'[m] = "WaitingToBeSent"
                /\ m \notin Range(pending') /\ m \notin inflight']_vars

\* A message was queued and discarded by a close; a message queued after
\* it was sent by a later send_all_messages, and the discarded one was not.
C18_Witness ==
    /\ kind = "Send" /\ sc.op = "send_all_messages" /\ sc.pc = "done"
    /\ sc.outcome = "returned"
    /\ \E m \in Msgs, k \in Range(sc.snapshot) :
          /\ m < k /\ msg_state[k] = "Complete"
          /\ msg_state[m] = "WaitingToBeSent" /\ m \notin Range(pending)

(***************************************************************************)
(* C8: with msg_timeout = T > 0, every do_work of a send_message call that *)
(* finds a message of the call queued more than T seconds ago and not yet  *)
(* taken by the transport leaves that message Failed, whatever the state   *)
(* of the link, unless the do_work raises and so ends the call.            *)
(***************************************************************************)
C8_ExpiredMessageFails ==
    [][(kind = "Send" /\ sc.op = "send_message" /\ msg_timeout > 0
          /\ sc.pc = "loop" /\ sc'.pc = "loop" /\ now' = now) =>
          \A m \in sc.batch :
              (msg_state[m] = "WaitingToBeSent"
                  /\ now - idle_time[m] > msg_timeout * MsPerSec) =>
                  msg_state'[m] = "Failed"]_vars

====
